---- MODULE Spec2Model ----
(***************************************************************************)
(* State-machine model of the task manager (list view, Gantt chart, modal  *)
(* form, AI panel, YAML bridge, local storage) of                          *)
(* chuchu2525/todo-gant-withAI.                                            *)
(*                                                                         *)
(* Conventions                                                             *)
(*  - A date string "YYYY-MM-DD" is the triple <<y, m, d>>.                *)
(*  - A JavaScript Date is an instant counted in hours since               *)
(*    1970-01-01T00:00Z.  The date-only string parser and toISOString are  *)
(*    UTC, every getter/setter (getDate, setDate, setMonth, setHours,      *)
(*    new Date(y, m, d)) is local time: local = UTC + tz hours.            *)
(*  - A YAML text is the document it denotes: a syntax error, a document   *)
(*    that is not a sequence, or a sequence of entries (null or a mapping  *)
(*    with the fields of the Task interface).                              *)
(*  - Task records carry the fields of the Task interface except the       *)
(*    free-text description, which no handler reads or changes.            *)
(***************************************************************************)
EXTENDS Integers, Sequences, FiniteSets, TLC

\* ------------------------------------------------------------------ bounds
MaxTasks == 3
MaxUuid == 1
MaxDeps == 1
MaxDrags == 2
MaxMultiDrags == 1
MaxAxisDrags == 1
MaxDragUnits == 1
MaxMutations == 1

\* --------------------------------------------------------- program constants
DRAG_THRESHOLD == 5
BaseUnitWidthDay == 75
BaseUnitWidthWeek == 70
BaseUnitWidthMonth == 180

NOT_STARTED == "Not Started"
IN_PROGRESS == "In Progress"
COMPLETED == "Completed"
TaskStatus == {NOT_STARTED, IN_PROGRESS, COMPLETED}

HIGH == "High"
MEDIUM == "Medium"
LOW == "Low"
TaskPriority == {HIGH, MEDIUM, LOW}

DEFAULT_TASK_STATUS == NOT_STARTED
DEFAULT_TASK_PRIORITY == MEDIUM

GanttViewMode == {"day", "week", "month"}

\* ------------------------------------------------------------- JS Date model
\* Days since 1970-01-01 of the proleptic Gregorian date y-m-d (m in 1..12).
DaysFromCivil(y, m, d) ==
  LET yy  == IF m <= 2 THEN y - 1 ELSE y
      era == yy \div 400
      yoe == yy - era * 400
      mp  == IF m > 2 THEN m - 3 ELSE m + 9
      doy == (153 * mp + 2) \div 5 + d - 1
      doe == yoe * 365 + yoe \div 4 - yoe \div 100 + doy
  IN  era * 146097 + doe - 719468

\* The Gregorian date <<y, m, d>> of a day number.
CivilFromDays(z) ==
  LET zz  == z + 719468
      era == zz \div 146097
      doe == zz - era * 146097
      yoe == (doe - doe \div 1460 + doe \div 36524 - doe \div 146096) \div 365
      doy == doe - (365 * yoe + yoe \div 4 - yoe \div 100)
      mp  == (5 * doy + 2) \div 153
      d   == doy - (153 * mp + 2) \div 5 + 1
      m   == IF mp < 10 THEN mp + 3 ELSE mp - 9
      y   == yoe + era * 400 + (IF m <= 2 THEN 1 ELSE 0)
  IN  <<y, m, d>>

\* ECMAScript MakeDay: month index m0 (0-based, any integer) and day of month
\* dt (any integer) roll over into the neighbouring months and years.
MakeDay(y, m0, dt) ==
  LET ym == y + (m0 \div 12)
      mn == m0 % 12
  IN  DaysFromCivil(ym, mn + 1, 1) + dt - 1

\* new Date("YYYY-MM-DD"): midnight UTC of that day.
ParseDate(s) == DaysFromCivil(s[1], s[2], s[3]) * 24

\* date.toISOString().split('T')[0]: the UTC calendar day.
ToISODate(t) == CivilFromDays(t \div 24)

LocalDay(t, tz) == (t + tz) \div 24
LocalHour(t, tz) == (t + tz) % 24
GetFullYear(t, tz) == CivilFromDays(LocalDay(t, tz))[1]
GetMonth(t, tz) == CivilFromDays(LocalDay(t, tz))[2] - 1
GetDate(t, tz) == CivilFromDays(LocalDay(t, tz))[3]
GetDay(t, tz) == (LocalDay(t, tz) + 4) % 7

\* date.setDate(n): same local year, month and time of day.
SetDate(t, n, tz) ==
  MakeDay(GetFullYear(t, tz), GetMonth(t, tz), n) * 24 + LocalHour(t, tz) - tz

\* date.setMonth(m0): same local year, day of month and time of day.
SetMonth(t, m0, tz) ==
  MakeDay(GetFullYear(t, tz), m0, GetDate(t, tz)) * 24 + LocalHour(t, tz) - tz

\* date.setHours(0,0,0,0): local midnight of the same local day.
SetHoursZero(t, tz) == LocalDay(t, tz) * 24 - tz

\* new Date(y, m0, d): local midnight.
NewDateLocal(y, m0, dt, tz) == MakeDay(y, m0, dt) * 24 - tz

\* ------------------------------------------------------------- Task records
Task(id, name, status, priority, startDate, endDate, dependencies) ==
  [id |-> id, name |-> name, status |-> status, priority |-> priority,
   startDate |-> startDate, endDate |-> endDate, dependencies |-> dependencies]

Range(s) == {s[i] : i \in DOMAIN s}

\* Array.prototype.filter with the predicate given as the set of kept indices.
RECURSIVE KeepIndices(_, _, _)
KeepIndices(s, keep, i) ==
  IF i > Len(s) THEN <<>>
  ELSE (IF i \in keep THEN <<s[i]>> ELSE <<>>) \o KeepIndices(s, keep, i + 1)

\* ------------------------------------------------------------- YAML bridge
NullEntry == [tag |-> "null"]
MapEntry(task) == [tag |-> "map", task |-> task]

SyntaxErrorDoc == [kind |-> "syntax_error", items |-> <<>>]
NotAListDoc == [kind |-> "not_list", items |-> <<>>]
ListDoc(items) == [kind |-> "list", items |-> items]

\* jsyaml.load throws on a syntax error.
LoadThrows(doc) == doc.kind = "syntax_error"

\* The filter of parseTasksFromYaml: task && task.id && task.name.
EntryKept(e) == e.tag = "map" /\ e.task.id # "" /\ e.task.name # ""

\* parseTasksFromYaml for a text that jsyaml.load accepts: a document that is
\* not an array parses to the empty collection.
parseTasksFromYaml(doc) ==
  IF doc.kind = "list"
  THEN LET kept == KeepIndices(doc.items,
                               {i \in DOMAIN doc.items : EntryKept(doc.items[i])}, 1)
       IN  [i \in DOMAIN kept |-> kept[i].task]
  ELSE <<>>

\* Faulty variant: the dependency lists are written empty.
stringifyTasksToYaml_NoDependencies(ts) ==
  [kind |-> "list",
   items |-> [i \in DOMAIN ts |->
                [tag |-> "map", task |-> [ts[i] EXCEPT !.dependencies = <<>>]]]]

\* stringifyTasksToYaml: jsyaml.dump of the array, one mapping per task.
stringifyTasksToYaml(ts) == ListDoc([i \in DOMAIN ts |-> MapEntry(ts[i])])

\* ----------------------------------------------------------- model inputs
D(m, d) == <<2024, m, d>>

\* Time zones of the browser: UTC and Asia/Tokyo.
TimeZones == {0, 9}

\* "now" of the browser session: 2024-01-30T03:00Z.
Nows == {DaysFromCivil(2024, 1, 30) * 24 + 3}

TaskA == Task("a", "A", NOT_STARTED, HIGH, D(1, 1), D(1, 2), <<>>)
TaskB == Task("b", "B", IN_PROGRESS, LOW, D(1, 3), D(1, 4), <<"a">>)
TaskC == Task("c", "C", COMPLETED, MEDIUM, D(1, 31), D(2, 29), <<"a", "b">>)
TaskM == Task("b", "M", NOT_STARTED, MEDIUM, D(1, 15), D(2, 15), <<"b", "x">>)
TaskDup == Task("a", "A2", COMPLETED, LOW, D(2, 2), D(2, 1), <<>>)
TaskNoName == Task("c", "", NOT_STARTED, LOW, D(1, 1), D(1, 1), <<>>)
TaskNoId == Task("", "N", NOT_STARTED, LOW, D(1, 1), D(1, 1), <<>>)

\* Stored YAML texts a browser session can start from and texts the AI
\* service or the YAML editor can hand to handleYamlUpdateByAi.
NoStored == [kind |-> "absent", items |-> <<>>]

CleanDocs ==
  { ListDoc(<<MapEntry(TaskA), MapEntry(TaskB)>>),
    ListDoc(<<MapEntry(TaskC), MapEntry(TaskA), MapEntry(TaskB)>>) }

ValidDocs ==
  CleanDocs \cup { ListDoc(<<MapEntry(TaskM), MapEntry(TaskDup), MapEntry(TaskA)>>) }

YamlDocs ==
  ValidDocs \cup
  { SyntaxErrorDoc, NotAListDoc,
    ListDoc(<<NullEntry, MapEntry(TaskNoName), MapEntry(TaskB), MapEntry(TaskNoId)>>) }

\* --------------------------------------------------------------- variables
VARIABLES
  tz, now,                                   \* browser environment
  rightDown,                                 \* bar a right-click is in progress on
  tasks, yamlString, stored, error,          \* App state and localStorage
  isLoading, pending, aiSummary,             \* AI requests: App flag, calls in flight, panel text
  currentView,
  isModalOpen, editingTask, uuidCount,       \* modal form
  filters, sortKey, sortOrder,               \* TaskList state
  selectedTasks, isSelectionMode,
  viewMode, draggingTask, dragStartX,        \* GanttChart state
  dragStartPosition, originalTaskData, originalMultiTaskData,
  selectedTaskIds, isMultiSelectMode, hasDragged, effHasDragged,
  preventClick, preventClickTimer, dragTooltip, dragCount, prevDrag,
  exportCalls, timers, openedTabs,           \* calendar export: calls made, setTimeout callbacks, tabs
  responseBody, fenceResults,                \* updateTasksViaAi: YAML body the service answers with, results
  size, isDragging, startPos, startSize,     \* ResizablePanel state and refs
  listeners, splitViewConfig,                \* document listeners; App's split configuration
  lastOp,                                    \* the last handler that ran
  tasksAtDown,                               \* the collection at pointer-down
  mutations                                  \* rewrites of the collection so far

envVars == <<tz, now, rightDown>>
calendarVars == <<exportCalls, timers, openedTabs>>
geminiVars == <<responseBody, fenceResults>>
panelVars == <<size, isDragging, startPos, startSize, listeners, splitViewConfig>>
serviceVars == <<calendarVars, geminiVars, panelVars>>
appVars == <<tasks, yamlString, stored, error>>
aiVars == <<isLoading, pending, aiSummary>>
formVars == <<isModalOpen, editingTask, uuidCount>>
listVars == <<filters, sortKey, sortOrder, selectedTasks, isSelectionMode>>
ganttVars == <<viewMode, draggingTask, dragStartX, dragStartPosition,
               originalTaskData, originalMultiTaskData, selectedTaskIds,
               isMultiSelectMode, hasDragged, effHasDragged, preventClick,
               preventClickTimer, dragTooltip, dragCount, prevDrag>>
histVars == <<lastOp, tasksAtDown, mutations>>
vars == <<envVars, serviceVars, appVars, aiVars, currentView, formVars, listVars, ganttVars, histVars>>

NoTask == "(none)"
NoData == [startDate |-> <<0, 0, 0>>, endDate |-> <<0, 0, 0>>]
NoTooltip == [shown |-> FALSE, x |-> 0, y |-> 0, startDate |-> <<0, 0, 0>>,
              endDate |-> <<0, 0, 0>>, deltaUnits |-> 0]
\* The last finished drag: the dragged id, its dates at pointer-down and at
\* pointer-up, the last applied unit delta, the granularity and whether the
\* pointer passed the drag threshold (hasDragged at pointer-up).
NoPrevDrag == [id |-> NoTask, multi |-> FALSE, startDate |-> <<0, 0, 0>>,
               endDate |-> <<0, 0, 0>>, newStartDate |-> <<0, 0, 0>>,
               newEndDate |-> <<0, 0, 0>>, deltaUnits |-> 0, unit |-> "day",
               dragged |-> FALSE]
NoEditing == Task(NoTask, "", NOT_STARTED, LOW, <<0, 0, 0>>, <<0, 0, 0>>, <<>>)

Op(name, id, ok) == [op |-> name, id |-> id, ok |-> ok]

\* History written by every handler: its name, argument and whether it ran
\* to its end; a pointer-down on a bar records the collection it found, the
\* end of the drag and a reload forget it.
Hist(name, id, ok) ==
  /\ lastOp' = Op(name, id, ok)
  /\ tasksAtDown' = (CASE name = "mouse_down" -> tasks
                       [] name \in {"mouse_up", "load"} -> <<>>
                       [] OTHER -> tasksAtDown)

\* The last conjunct of every handler: a step that rewrote the collection or
\* the stored YAML is counted, up to MaxMutations.
Counted ==
  mutations' = (IF (tasks' # tasks \/ stored' # stored) /\ mutations < MaxMutations
                THEN mutations + 1 ELSE mutations)

\* ------------------------------------------------------------ initial load
\* INITIAL_TASKS_YAML: three chained tasks dated relative to "now".
InitialDate(k, n, z) == ToISODate(SetDate(n, GetDate(n, z) + k, z))

INITIAL_TASKS_YAML(n, z) ==
  ListDoc(<<
    MapEntry(Task("task-1", "Project Kickoff Meeting", NOT_STARTED, HIGH,
                  ToISODate(n), InitialDate(1, n, z), <<>>)),
    MapEntry(Task("task-2", "Requirement Gathering", NOT_STARTED, HIGH,
                  InitialDate(2, n, z), InitialDate(5, n, z), <<"task-1">>)),
    MapEntry(Task("task-3", "UI/UX Design Phase", NOT_STARTED, MEDIUM,
                  InitialDate(6, n, z), InitialDate(10, n, z), <<"task-2">>)) >>)

\* The mount effect of App: storedYaml || INITIAL_TASKS_YAML, parsed; a text
\* that does not parse leaves the empty collection and an error.
InitialYaml(st, n, z) == IF st = NoStored THEN INITIAL_TASKS_YAML(n, z) ELSE st

LoadedTasks(st, n, z) ==
  IF LoadThrows(InitialYaml(st, n, z)) THEN <<>>
  ELSE parseTasksFromYaml(InitialYaml(st, n, z))

LoadedYaml(st, n, z) ==
  IF LoadThrows(InitialYaml(st, n, z)) THEN stringifyTasksToYaml(<<>>)
  ELSE InitialYaml(st, n, z)

LoadedError(st, n, z) ==
  IF LoadThrows(InitialYaml(st, n, z)) THEN "load" ELSE "none"

InitList ==
  /\ filters = [status |-> "all", priority |-> "all", dateRange |-> "all"]
  /\ sortKey = "startDate"
  /\ sortOrder = "asc"
  /\ selectedTasks = <<>>
  /\ isSelectionMode = FALSE

InitGantt ==
  /\ viewMode = "day"
  /\ draggingTask = NoTask
  /\ dragStartX = 0
  /\ dragStartPosition = <<0, 0>>
  /\ originalTaskData = NoData
  /\ originalMultiTaskData = <<>>
  /\ selectedTaskIds = <<>>
  /\ isMultiSelectMode = FALSE
  /\ hasDragged = FALSE
  /\ effHasDragged = FALSE
  /\ preventClick = FALSE
  /\ preventClickTimer = FALSE
  /\ dragTooltip = NoTooltip
  /\ dragCount = 0
  /\ prevDrag = NoPrevDrag

InitCalendarIdle ==
  /\ exportCalls = <<>>
  /\ timers = <<>>
  /\ openedTabs = <<>>

InitGeminiIdle ==
  /\ responseBody = <<>>
  /\ fenceResults = <<>>

InitApp(stores, zones) ==
  /\ tz \in zones
  /\ now \in Nows
  /\ rightDown = NoTask
  /\ isLoading = FALSE
  /\ pending = <<>>
  /\ aiSummary = ""
  /\ stored \in stores
  /\ tasks = LoadedTasks(stored, now, tz)
  /\ yamlString = LoadedYaml(stored, now, tz)
  /\ error = LoadedError(stored, now, tz)
  /\ currentView = "list"
  /\ isModalOpen = FALSE
  /\ editingTask = NoEditing
  /\ uuidCount = 0
  /\ InitList
  /\ InitGantt
  /\ lastOp = Op("load", NoTask, TRUE)
  /\ tasksAtDown = <<>>
  /\ mutations = 0

\* useState of App: leftSize and rightSize of the split view, in percent.
InitialLeftSize == 50

\* The ResizablePanel as mounted with initialSize = splitViewConfig.leftSize.
InitPanelIdle ==
  /\ splitViewConfig = [leftSize |-> InitialLeftSize, rightSize |-> 100 - InitialLeftSize]
  /\ size = InitialLeftSize
  /\ isDragging = FALSE
  /\ startPos = 0
  /\ startSize = 0
  /\ listeners = {}

InitServices == InitCalendarIdle /\ InitGeminiIdle /\ InitPanelIdle

InitWith(stores, zones) == InitServices /\ InitApp(stores, zones)

\* ------------------------------------------------------ TaskList derived data
\* End of a local day (setHours(23,59,59,999)) as the first hour after it:
\* instants are whole hours, so t > endOfDay iff t >= AfterDay.
AfterDay(midnight) == midnight + 24

InDateRange(task, range, n, z) ==
  LET taskDate   == ParseDate(task.startDate)
      today      == SetHoursZero(n, z)
      weekStart  == SetDate(today, GetDate(today, z) - GetDay(today, z), z)
      weekEnd    == SetDate(weekStart, GetDate(weekStart, z) + 6, z)
      monthStart == NewDateLocal(GetFullYear(today, z), GetMonth(today, z), 1, z)
      monthEnd   == NewDateLocal(GetFullYear(today, z), GetMonth(today, z) + 1, 0, z)
  IN  CASE range = "today"     -> ~(taskDate < today \/ taskDate >= AfterDay(today))
        [] range = "thisWeek"  -> ~(taskDate < weekStart \/ taskDate >= AfterDay(weekEnd))
        [] range = "thisMonth" -> ~(taskDate < monthStart \/ taskDate >= AfterDay(monthEnd))
        [] OTHER               -> TRUE

PassesFilters(task, f, n, z) ==
  /\ (f.status = "all" \/ task.status = f.status)
  /\ (f.priority = "all" \/ task.priority = f.priority)
  /\ (f.dateRange = "all" \/ InDateRange(task, f.dateRange, n, z))

applyFilters(ts, f, n, z) ==
  KeepIndices(ts, {i \in DOMAIN ts : PassesFilters(ts[i], f, n, z)}, 1)

PriorityOrder(p) == CASE p = HIGH -> 3 [] p = MEDIUM -> 2 [] OTHER -> 1
StatusOrder(st) == CASE st = IN_PROGRESS -> 2 [] st = NOT_STARTED -> 1 [] OTHER -> 0

SortValue(task, key) ==
  CASE key = "priority"  -> PriorityOrder(task.priority)
    [] key = "status"    -> StatusOrder(task.status)
    [] key = "startDate" -> ParseDate(task.startDate)
    [] OTHER             -> ParseDate(task.endDate)

\* Faulty variant: equal values are ordered like greater ones.
Compare_NoTies(a, b, key, order) ==
  IF SortValue(a, key) < SortValue(b, key) THEN (IF order = "asc" THEN -1 ELSE 1)
  ELSE (IF order = "asc" THEN 1 ELSE -1)

\* Faulty variant: the direction is ignored.
Compare_Ascending(a, b, key, order) ==
  IF SortValue(a, key) < SortValue(b, key) THEN -1
  ELSE IF SortValue(a, key) > SortValue(b, key) THEN 1
  ELSE 0

\* The comparator of sortedTasks: -1, 0 or 1.
Compare(a, b, key, order) ==
  IF SortValue(a, key) < SortValue(b, key) THEN (IF order = "asc" THEN -1 ELSE 1)
  ELSE IF SortValue(a, key) > SortValue(b, key) THEN (IF order = "asc" THEN 1 ELSE -1)
  ELSE 0

\* Array.prototype.sort is stable: x goes behind every element it does not
\* strictly precede.
RECURSIVE InsertSorted(_, _, _, _)
InsertSorted(sorted, x, key, order) ==
  IF sorted = <<>> THEN <<x>>
  ELSE IF Compare(x, Head(sorted), key, order) < 0 THEN <<x>> \o sorted
  ELSE <<Head(sorted)>> \o InsertSorted(Tail(sorted), x, key, order)

RECURSIVE StableSort(_, _, _)
StableSort(ts, key, order) ==
  IF ts = <<>> THEN <<>>
  ELSE InsertSorted(StableSort(SubSeq(ts, 1, Len(ts) - 1), key, order),
                    ts[Len(ts)], key, order)

filteredTasks == applyFilters(tasks, filters, now, tz)
sortedTasks == StableSort(filteredTasks, sortKey, sortOrder)

\* TaskList renders its controls and items only when tasks pass the filters.
\* No handler of the list, the form or the AI panel runs while a bar is held.
PointerFree == draggingTask = NoTask

\* The components renderView mounts for the current view (desktop width).
ListMounted == currentView \in {"list", "split-list-gantt", "split-list-ai"}
GanttMounted == currentView \in {"gantt", "split-list-gantt", "split-gantt-ai"}
AiMounted == currentView \in {"ai", "split-list-ai", "split-gantt-ai"}

\* The "Loading..." layer App lays over the page outside the single AI view.
LoadingOverlay == isLoading /\ currentView # "ai"

ListShown ==
  ListMounted /\ PointerFree /\ ~isModalOpen /\ ~LoadingOverlay /\ Len(filteredTasks) > 0

TaskIds(ts) == {ts[i].id : i \in DOMAIN ts}

\* ------------------------------------------------------------ App handlers
\* Faulty variant: the editor text is refreshed but localStorage is not written.
syncTasksToYaml_NoStore(updatedTasks) ==
  /\ yamlString' = stringifyTasksToYaml(updatedTasks)
  /\ error' = "none"
  /\ UNCHANGED stored

\* syncTasksToYaml: the serialized collection goes to the editor state and to
\* localStorage, and the error banner is cleared.
syncTasksToYaml(updatedTasks) ==
  /\ yamlString' = stringifyTasksToYaml(updatedTasks)
  /\ stored' = stringifyTasksToYaml(updatedTasks)
  /\ error' = "none"

WithoutDependency(t, taskId) ==
  [t EXCEPT !.dependencies = SelectSeq(@, LAMBDA depId : depId # taskId)]

\* Faulty variant: the deleted id stays in the dependencies of the remaining tasks.
TasksAfterDelete_KeepDeps(ts, taskId) ==
  KeepIndices(ts, {i \in DOMAIN ts : ts[i].id # taskId}, 1)

\* newTasks of handleDeleteTask.
TasksAfterDelete(ts, taskId) ==
  LET rest == KeepIndices(ts, {i \in DOMAIN ts : ts[i].id # taskId}, 1)
  IN  [i \in DOMAIN rest |-> WithoutDependency(rest[i], taskId)]

\* The delete button of a listed task; window.confirm answers "confirmed".
handleDeleteTask(taskId, confirmed) ==
  /\ ListShown
  /\ taskId \in TaskIds(sortedTasks)
  /\ IF confirmed
     THEN /\ tasks' = TasksAfterDelete(tasks, taskId)
          /\ syncTasksToYaml(TasksAfterDelete(tasks, taskId))
     ELSE UNCHANGED appVars
  /\ Hist("delete", taskId, confirmed)
  /\ UNCHANGED <<envVars, serviceVars, aiVars, currentView, formVars, listVars, ganttVars>>
  /\ Counted

\* handleYamlUpdateByAi: a text that does not load keeps the collection and
\* the stored YAML but is shown in the editor.
handleYamlUpdateByAi(newYamlFromAi) ==
  IF LoadThrows(newYamlFromAi)
  THEN /\ error' = "ai_invalid"
       /\ yamlString' = newYamlFromAi
       /\ UNCHANGED <<tasks, stored>>
  ELSE /\ tasks' = parseTasksFromYaml(newYamlFromAi)
       /\ yamlString' = newYamlFromAi
       /\ stored' = newYamlFromAi
       /\ error' = "none"

\* Faulty variant: the AI controls stay enabled while a call is in flight.
ControlsEnabled_Always == TRUE

\* disabled={isLoading} of the summary button, the prompt and its submit
\* button, the YAML editor and its apply button.
ControlsEnabled == ~isLoading

\* handlePromptSubmit as one step, with the text updateTasksViaAi resolved
\* to: the request and its successful response, between which no handler
\* other than a view button can run.
handlePromptSubmit(newYaml) ==
  /\ AiMounted /\ PointerFree /\ ~isModalOpen /\ ControlsEnabled
  /\ handleYamlUpdateByAi(newYaml)
  /\ Hist("ai_rewrite", NoTask, ~LoadThrows(newYaml))
  /\ UNCHANGED <<envVars, serviceVars, aiVars, currentView, formVars, listVars, ganttVars>>
  /\ Counted

\* handleDirectYamlSubmit: the editor text is parsed first; a text that
\* throws is reported and never reaches handleYamlUpdateByAi.
handleDirectYamlSubmit(editableYaml) ==
  /\ AiMounted /\ PointerFree /\ ~isModalOpen /\ ControlsEnabled
  /\ IF LoadThrows(editableYaml)
     THEN /\ error' = "invalid_yaml"
          /\ UNCHANGED <<tasks, yamlString, stored>>
     ELSE handleYamlUpdateByAi(editableYaml)
  /\ Hist("direct_yaml", NoTask, ~LoadThrows(editableYaml))
  /\ UNCHANGED <<envVars, serviceVars, aiVars, currentView, formVars, listVars, ganttVars>>
  /\ Counted

\* ------------------------------------------------------- AI service calls
\* What a call of the AI service ends with.  Before anything is sent the
\* service checks the API key, the input and the client instance; a call that
\* was sent ends with a response, a network error, or a response the service
\* rejects.
EarlyFailures == {"no_api_key", "invalid_input", "init_failed"}
SentFailures == {"network_error", "empty_response"}
AiFailures == EarlyFailures \cup SentFailures \cup {"invalid_response"}

\* A call in flight: its kind and whether the panel that issued it is still
\* mounted.
Request(kind) == [kind |-> kind, mounted |-> TRUE]

RemoveAt(s, i) == [k \in 1..(Len(s) - 1) |-> IF k < i THEN s[k] ELSE s[k + 1]]

\* fetchSummary up to its await.  getAiTaskSummary never rejects: a failure
\* is the string it resolves to, which becomes the summary text.  A call
\* that fails before anything is sent settles before the next event: the
\* handler runs to its end in this step.
fetchSummary(early) ==
  /\ AiMounted /\ PointerFree /\ ~isModalOpen /\ ControlsEnabled
  /\ early \in EarlyFailures \cup {"no_tasks", "sent"}
  /\ early = "no_tasks" => Len(tasks) = 0
  /\ Len(tasks) = 0 => early \in {"no_api_key", "no_tasks"}
  /\ error' = "none"
  /\ IF early = "sent"
     THEN /\ isLoading' = TRUE
          /\ pending' = Append(pending, Request("summary"))
          /\ UNCHANGED aiSummary
     ELSE /\ isLoading' = FALSE
          /\ aiSummary' = early
          /\ UNCHANGED pending
  /\ Hist("summary", early, early = "sent")
  /\ UNCHANGED <<envVars, serviceVars, tasks, yamlString, stored, currentView, formVars,
                 listVars, ganttVars>>
  /\ Counted

\* The rest of fetchSummary once generateContent settled for the call
\* pending[i].  setAiSummary on an unmounted panel changes nothing.
fetchSummarySettles(i, outcome) ==
  /\ i \in DOMAIN pending
  /\ pending[i].kind = "summary"
  /\ outcome \in SentFailures \cup {"ok"}
  /\ aiSummary' = (IF pending[i].mounted THEN outcome ELSE aiSummary)
  /\ isLoading' = FALSE
  /\ pending' = RemoveAt(pending, i)
  /\ Hist("summary_settled", outcome, outcome = "ok")
  /\ UNCHANGED <<envVars, serviceVars, appVars, currentView, formVars, listVars, ganttVars>>
  /\ Counted

\* handlePromptSubmit up to its await, with the prompt the user typed.  A
\* rejection before anything is sent is caught before the next event.
submitPrompt(userPrompt, early) ==
  /\ AiMounted /\ PointerFree /\ ~isModalOpen /\ ControlsEnabled
  /\ early \in EarlyFailures \cup {"sent"}
  /\ IF userPrompt \in {"", " "}                   \* !userPrompt.trim()
     THEN /\ error' = "empty_prompt"
          /\ UNCHANGED <<isLoading, pending>>
          /\ Hist("ai_request", "empty_prompt", FALSE)
     ELSE IF early = "sent"
     THEN /\ error' = "none"
          /\ isLoading' = TRUE
          /\ pending' = Append(pending, Request("rewrite"))
          /\ Hist("ai_request", early, TRUE)
     ELSE /\ error' = early
          /\ isLoading' = FALSE
          /\ UNCHANGED pending
          /\ Hist("ai_request", early, FALSE)
  /\ UNCHANGED <<envVars, serviceVars, tasks, yamlString, stored, aiSummary, currentView,
                 formVars, listVars, ganttVars>>
  /\ Counted

\* The rest of handlePromptSubmit once updateTasksViaAi settled for the call
\* pending[i]: the text it resolved to goes to handleYamlUpdateByAi, a
\* rejection to the error banner.
updateTasksViaAiSettles(i, outcome, newYaml) ==
  /\ i \in DOMAIN pending
  /\ pending[i].kind = "rewrite"
  /\ outcome \in SentFailures \cup {"invalid_response", "ok"}
  /\ IF outcome = "ok"
     THEN /\ handleYamlUpdateByAi(newYaml)
          /\ Hist("ai_rewrite", NoTask, ~LoadThrows(newYaml))
     ELSE /\ error' = outcome
          /\ UNCHANGED <<tasks, yamlString, stored>>
          /\ Hist("ai_failed", outcome, FALSE)
  /\ isLoading' = FALSE
  /\ pending' = RemoveAt(pending, i)
  /\ UNCHANGED <<envVars, serviceVars, aiSummary, currentView, formVars, listVars, ganttVars>>
  /\ Counted

\* The state TaskList and GanttChart mount with.
ResetList ==
  /\ filters' = [status |-> "all", priority |-> "all", dateRange |-> "all"]
  /\ sortKey' = "startDate"
  /\ sortOrder' = "asc"
  /\ selectedTasks' = <<>>
  /\ isSelectionMode' = FALSE

ResetGantt ==
  /\ viewMode' = "day"
  /\ draggingTask' = NoTask
  /\ dragStartX' = 0
  /\ dragStartPosition' = <<0, 0>>
  /\ originalTaskData' = NoData
  /\ originalMultiTaskData' = <<>>
  /\ selectedTaskIds' = <<>>
  /\ isMultiSelectMode' = FALSE
  /\ hasDragged' = FALSE
  /\ effHasDragged' = FALSE
  /\ preventClick' = FALSE
  /\ preventClickTimer' = FALSE
  /\ dragTooltip' = NoTooltip
  /\ prevDrag' = NoPrevDrag
  /\ UNCHANGED dragCount

\* AiInteraction unmounts: a panel that mounts later starts without summary,
\* and the calls in flight belong to an instance that is gone.
ResetAi ==
  /\ aiSummary' = ""
  /\ pending' = [i \in DOMAIN pending |-> [pending[i] EXCEPT !.mounted = FALSE]]

\* A view button of the header: setCurrentView(view).  A component that is
\* not rendered at the same place of the tree before and after is unmounted
\* and mounts with its initial state; the list keeps its state only between
\* the two split views that hold it in the left pane, the AI panel only
\* between the two that hold it in the right pane.
ViewModes ==
  {"list", "gantt", "ai", "split-list-gantt", "split-list-ai", "split-gantt-ai"}

setCurrentView(view) ==
  /\ PointerFree /\ ~isModalOpen /\ ~LoadingOverlay
  /\ view # currentView
  /\ currentView' = view
  /\ IF {currentView, view} = {"split-list-gantt", "split-list-ai"}
     THEN UNCHANGED listVars
     ELSE ResetList
  /\ ResetGantt
  /\ IF {currentView, view} = {"split-list-ai", "split-gantt-ai"}
     THEN UNCHANGED <<pending, aiSummary>>
     ELSE ResetAi
  /\ Hist("view", view, TRUE)
  /\ UNCHANGED <<envVars, serviceVars, isLoading, appVars, formVars>>
  /\ Counted

\* A page reload: every component state is rebuilt from localStorage.
Reload ==
  /\ PointerFree
  /\ tasks' = LoadedTasks(stored, now, tz)
  /\ yamlString' = LoadedYaml(stored, now, tz)
  /\ error' = LoadedError(stored, now, tz)
  /\ isModalOpen' = FALSE
  /\ editingTask' = NoEditing
  /\ ResetList
  /\ ResetGantt
  /\ Hist("load", NoTask, TRUE)
  /\ currentView' = "list"
  /\ isLoading' = FALSE
  /\ pending' = <<>>
  /\ aiSummary' = ""
  /\ UNCHANGED <<envVars, serviceVars, stored, uuidCount>>
  /\ Counted

\* --------------------------------------------------------- TaskList handlers
SortKeys == {"startDate", "endDate", "priority", "status"}

handleSort(key) ==
  /\ ListShown
  /\ IF sortKey = key
     THEN /\ sortOrder' = (IF sortOrder = "asc" THEN "desc" ELSE "asc")
          /\ UNCHANGED sortKey
     ELSE /\ sortKey' = key
          /\ sortOrder' = "asc"
  /\ Hist("sort", key, TRUE)
  /\ UNCHANGED <<envVars, serviceVars, aiVars, currentView, appVars, formVars, filters, selectedTasks,
                 isSelectionMode, ganttVars>>
  /\ Counted

\* One of the three filter selects changes.
setFilters(field, value) ==
  /\ ListShown
  /\ filters' = [filters EXCEPT ![field] = value]
  /\ Hist("filter", field, TRUE)
  /\ UNCHANGED <<envVars, serviceVars, aiVars, currentView, appVars, formVars, sortKey, sortOrder,
                 selectedTasks, isSelectionMode, ganttVars>>
  /\ Counted

toggleSelectionMode ==
  /\ ListShown
  /\ isSelectionMode' = ~isSelectionMode
  /\ selectedTasks' = (IF isSelectionMode THEN <<>> ELSE selectedTasks)
  /\ Hist("selection_mode", NoTask, TRUE)
  /\ UNCHANGED <<envVars, serviceVars, aiVars, currentView, appVars, formVars, filters, sortKey, sortOrder,
                 ganttVars>>
  /\ Counted

\* A Set keeps insertion order: add appends an absent id, delete removes it.
SetAdd(set, x) == IF x \in Range(set) THEN set ELSE Append(set, x)
SetDelete(set, x) == SelectSeq(set, LAMBDA y : y # x)

RECURSIVE SetFromSeq(_)
SetFromSeq(s) ==
  IF s = <<>> THEN <<>>
  ELSE SetAdd(SetFromSeq(SubSeq(s, 1, Len(s) - 1)), s[Len(s)])

\* The checkbox of a listed task.
handleTaskSelection(taskId, isSelected) ==
  /\ ListShown
  /\ isSelectionMode
  /\ taskId \in TaskIds(sortedTasks)
  /\ isSelected = (taskId \notin Range(selectedTasks))
  /\ selectedTasks' = (IF isSelected THEN SetAdd(selectedTasks, taskId)
                       ELSE SetDelete(selectedTasks, taskId))
  /\ Hist("select", taskId, isSelected)
  /\ UNCHANGED <<envVars, serviceVars, aiVars, currentView, appVars, formVars, filters, sortKey, sortOrder,
                 isSelectionMode, ganttVars>>
  /\ Counted

handleSelectAll ==
  /\ ListShown
  /\ isSelectionMode
  /\ selectedTasks' = (IF Len(selectedTasks) = Len(tasks) THEN <<>>
                       ELSE SetFromSeq([i \in DOMAIN tasks |-> tasks[i].id]))
  /\ Hist("select_all", NoTask, TRUE)
  /\ UNCHANGED <<envVars, serviceVars, aiVars, currentView, appVars, formVars, filters, sortKey, sortOrder,
                 isSelectionMode, ganttVars>>
  /\ Counted

\* handleBulkDelete calls onDeleteTask once per selected id inside one event.
\* Every call asks its own confirmation and computes its newTasks from the
\* tasks of the render the handler belongs to; the last setTasks and the last
\* localStorage write are the ones that remain.
ConfirmedIndices(sel, answers) == {i \in DOMAIN sel : answers[sel[i]]}

LastConfirmed(sel, answers) ==
  sel[CHOOSE i \in ConfirmedIndices(sel, answers) :
        \A j \in ConfirmedIndices(sel, answers) : j <= i]

TasksAfterBulkDelete(ts, sel, answers) ==
  IF ConfirmedIndices(sel, answers) = {} THEN ts
  ELSE TasksAfterDelete(ts, LastConfirmed(sel, answers))

handleBulkDelete(confirmed, answers) ==
  /\ ListShown
  /\ isSelectionMode
  /\ Len(selectedTasks) > 0
  /\ IF confirmed
     THEN /\ IF ConfirmedIndices(selectedTasks, answers) = {}
             THEN UNCHANGED appVars
             ELSE /\ tasks' = TasksAfterBulkDelete(tasks, selectedTasks, answers)
                  /\ syncTasksToYaml(TasksAfterBulkDelete(tasks, selectedTasks, answers))
          /\ selectedTasks' = <<>>
          /\ isSelectionMode' = FALSE
     ELSE UNCHANGED <<appVars, selectedTasks, isSelectionMode>>
  /\ Hist("bulk_delete", NoTask,
          confirmed /\ \A x \in Range(selectedTasks) : answers[x])
  /\ UNCHANGED <<envVars, serviceVars, aiVars, currentView, formVars, filters, sortKey, sortOrder, ganttVars>>
  /\ Counted

\* handleBulkStatusChange -> handleBulkUpdate.
\* Faulty variant: every task gets the status, selected or not.
TasksWithStatus_All(ts, sel, status) ==
  [i \in DOMAIN ts |-> [ts[i] EXCEPT !.status = status]]

TasksWithStatus(ts, sel, status) ==
  [i \in DOMAIN ts |-> IF ts[i].id \in Range(sel)
                       THEN [ts[i] EXCEPT !.status = status] ELSE ts[i]]

handleBulkStatusChange(status) ==
  /\ ListShown
  /\ isSelectionMode
  /\ Len(selectedTasks) > 0
  /\ tasks' = TasksWithStatus(tasks, selectedTasks, status)
  /\ syncTasksToYaml(TasksWithStatus(tasks, selectedTasks, status))
  /\ selectedTasks' = <<>>
  /\ isSelectionMode' = FALSE
  /\ Hist("bulk_status", status, TRUE)
  /\ UNCHANGED <<envVars, serviceVars, aiVars, currentView, formVars, filters, sortKey, sortOrder, ganttVars>>
  /\ Counted

\* handleDragEnd: the dragged item leaves position source and enters position
\* destination of the displayed (filtered and sorted) list, which then becomes
\* the collection through handleReorderTasks.
Splice(items, source, destination) ==
  LET moved   == items[source]
      without == SubSeq(items, 1, source - 1) \o SubSeq(items, source + 1, Len(items))
  IN  SubSeq(without, 1, destination - 1) \o <<moved>>
        \o SubSeq(without, destination, Len(without))

ReorderedTasks(source, destination) == Splice(sortedTasks, source, destination)

handleDragEnd(source, hasDestination, destination) ==
  /\ ListShown
  /\ ~isSelectionMode
  /\ source \in DOMAIN sortedTasks
  /\ destination \in DOMAIN sortedTasks
  /\ IF hasDestination
     THEN /\ tasks' = ReorderedTasks(source, destination)
          /\ syncTasksToYaml(ReorderedTasks(source, destination))
     ELSE UNCHANGED appVars
  /\ Hist("reorder", NoTask, hasDestination)
  /\ UNCHANGED <<envVars, serviceVars, aiVars, currentView, formVars, listVars, ganttVars>>
  /\ Counted

\* ------------------------------------------------------------- modal form
\* Field values a user types into the form; " " is a name that trims to "".
FormFields ==
  { [name |-> "F", status |-> IN_PROGRESS, priority |-> HIGH,
     startDate |-> D(1, 31), endDate |-> D(2, 1)],
    [name |-> " ", status |-> NOT_STARTED, priority |-> MEDIUM,
     startDate |-> D(1, 1), endDate |-> D(1, 1)],
    [name |-> "G", status |-> COMPLETED, priority |-> LOW,
     startDate |-> D(1, 5), endDate |-> D(1, 4)] }

Trim(name) == IF name = " " THEN "" ELSE name

\* crypto.randomUUID(): the n-th identifier, different from every other id.
RandomUuidId(n) == "task-" \o ToString(n)

openNewTaskModal ==
  /\ ListMounted /\ PointerFree /\ ~isModalOpen /\ ~LoadingOverlay
  /\ editingTask' = NoEditing
  /\ isModalOpen' = TRUE
  /\ Hist("open_new", NoTask, TRUE)
  /\ UNCHANGED <<envVars, serviceVars, aiVars, currentView, appVars, uuidCount, listVars, ganttVars>>
  /\ Counted

\* The edit button of a listed task.
handleEditTask(taskToEdit) ==
  /\ ListShown
  /\ taskToEdit \in Range(sortedTasks)
  /\ editingTask' = taskToEdit
  /\ isModalOpen' = TRUE
  /\ Hist("open_edit", taskToEdit.id, TRUE)
  /\ UNCHANGED <<envVars, serviceVars, aiVars, currentView, appVars, uuidCount, listVars, ganttVars>>
  /\ Counted

\* The cancel button of the form.
onCancel ==
  /\ isModalOpen
  /\ isModalOpen' = FALSE
  /\ editingTask' = NoEditing
  /\ Hist("cancel", NoTask, TRUE)
  /\ UNCHANGED <<envVars, serviceVars, aiVars, currentView, appVars, uuidCount, listVars, ganttVars>>
  /\ Counted

\* handleDependencyToggle for each clicked checkbox, in click order.
ToggleDependency(deps, taskId) ==
  IF taskId \in Range(deps) THEN SelectSeq(deps, LAMBDA id : id # taskId)
  ELSE Append(deps, taskId)

availableDependencies ==
  {id \in TaskIds(tasks) : editingTask = NoEditing \/ id # editingTask.id}

\* Faulty variant: the dates are not compared.
FormValid_NameOnly(f) == Trim(f.name) # ""

\* The two checks of TaskForm.handleSubmit.
FormValid(f) ==
  /\ Trim(f.name) # ""
  /\ ~(ParseDate(f.startDate) > ParseDate(f.endDate))

taskData(f, deps) ==
  Task(IF editingTask # NoEditing THEN editingTask.id ELSE RandomUuidId(uuidCount + 1),
       f.name, f.status, f.priority, f.startDate, f.endDate, deps)

handleAddTask(task) ==
  /\ tasks' = Append(tasks, task)
  /\ syncTasksToYaml(Append(tasks, task))
  /\ isModalOpen' = FALSE
  /\ UNCHANGED editingTask

TasksAfterUpdate(ts, updatedTask) ==
  [i \in DOMAIN ts |-> IF ts[i].id = updatedTask.id THEN updatedTask ELSE ts[i]]

handleUpdateTask(updatedTask) ==
  /\ tasks' = TasksAfterUpdate(tasks, updatedTask)
  /\ syncTasksToYaml(TasksAfterUpdate(tasks, updatedTask))
  /\ isModalOpen' = FALSE
  /\ editingTask' = NoEditing

\* TaskForm.handleSubmit with the typed fields f and the dependency
\* checkboxes clicked since the form opened.
handleSubmit(f, clicked) ==
  /\ isModalOpen
  /\ clicked \in {<<>>} \cup {<<id>> : id \in availableDependencies}
  /\ clicked # <<>> => Len(IF editingTask # NoEditing THEN editingTask.dependencies
                          ELSE <<>>) < MaxDeps
  /\ editingTask = NoEditing => (Len(tasks) < MaxTasks /\ uuidCount < MaxUuid)
  /\ LET start == IF editingTask # NoEditing THEN editingTask.dependencies ELSE <<>>
         deps  == IF clicked = <<>> THEN start ELSE ToggleDependency(start, clicked[1])
     IN  IF ~FormValid(f)
         THEN /\ UNCHANGED <<appVars, formVars>>
              /\ Hist("submit", NoTask, FALSE)
         ELSE IF editingTask # NoEditing
         THEN /\ handleUpdateTask(taskData(f, deps))
              /\ UNCHANGED uuidCount
              /\ Hist("edit", editingTask.id, TRUE)
         ELSE /\ handleAddTask(taskData(f, deps))
              /\ uuidCount' = uuidCount + 1
              /\ Hist("add", RandomUuidId(uuidCount + 1), TRUE)
  /\ UNCHANGED <<envVars, serviceVars, aiVars, currentView, listVars, ganttVars>>
  /\ Counted

\* ------------------------------------------------------------- GanttChart
\* unitWidth at zoom level 1 (the zoom buttons only scale it).
unitWidth ==
  CASE viewMode = "week"  -> BaseUnitWidthWeek
    [] viewMode = "month" -> BaseUnitWidthMonth
    [] OTHER              -> BaseUnitWidthDay

timeUnit == viewMode

\* Math.round(a / b) for b > 0: halves round towards plus infinity.
MathRound(a, b) == (2 * a + b) \div (2 * b)

\* The shift every branch of handleMouseMove applies to an original date:
\* set the local day of month (day, week) or the local month (month).
ShiftedInstant(dateString, deltaUnits, unit, z) ==
  LET original == ParseDate(dateString)
  IN  CASE unit = "day"  -> SetDate(original, GetDate(original, z) + deltaUnits, z)
        [] unit = "week" -> SetDate(original, GetDate(original, z) + deltaUnits * 7, z)
        [] OTHER         -> SetMonth(original, GetMonth(original, z) + deltaUnits, z)

\* newStartDate.toISOString().split('T')[0]
ShiftedDate(dateString, deltaUnits, unit, z) ==
  ToISODate(ShiftedInstant(dateString, deltaUnits, unit, z))

\* toLocaleDateString('ja-JP'): the local calendar day.
LocaleDate(t, z) == CivilFromDays(LocalDay(t, z))

\* The chart is rendered with its controls only for a non-empty collection.
GanttShown == GanttMounted /\ ~isModalOpen /\ ~LoadingOverlay /\ Len(tasks) > 0

setViewMode(mode) ==
  /\ GanttShown
  /\ draggingTask = NoTask
  /\ viewMode' = mode
  /\ Hist("view_mode", mode, TRUE)
  /\ UNCHANGED <<envVars, serviceVars, aiVars, currentView, appVars, formVars, listVars, draggingTask, dragStartX,
                 dragStartPosition, originalTaskData, originalMultiTaskData,
                 selectedTaskIds, isMultiSelectMode, hasDragged, effHasDragged,
                 preventClick, preventClickTimer, dragTooltip, dragCount, prevDrag>>
  /\ Counted

\* The multi-select button: setIsMultiSelectMode(!isMultiSelectMode).
clickMultiSelectButton ==
  /\ GanttShown
  /\ draggingTask = NoTask
  /\ isMultiSelectMode' = ~isMultiSelectMode
  /\ Hist("multi_select_mode", NoTask, TRUE)
  /\ UNCHANGED <<envVars, serviceVars, aiVars, currentView, appVars, formVars, listVars, viewMode, draggingTask,
                 dragStartX, dragStartPosition, originalTaskData,
                 originalMultiTaskData, selectedTaskIds, hasDragged,
                 effHasDragged, preventClick, preventClickTimer, dragTooltip, dragCount, prevDrag>>
  /\ Counted

\* The "clear selection" button shown in multi-select mode.
clickClearSelection ==
  /\ GanttShown
  /\ draggingTask = NoTask
  /\ isMultiSelectMode /\ Len(selectedTaskIds) > 0
  /\ selectedTaskIds' = <<>>
  /\ Hist("clear_selection", NoTask, TRUE)
  /\ UNCHANGED <<envVars, serviceVars, aiVars, currentView, appVars, formVars, listVars, viewMode, draggingTask,
                 dragStartX, dragStartPosition, originalTaskData,
                 originalMultiTaskData, isMultiSelectMode, hasDragged,
                 effHasDragged, preventClick, preventClickTimer, dragTooltip, dragCount, prevDrag>>
  /\ Counted

\* onClick of a task bar.
barClick(task) ==
  /\ GanttShown
  /\ task \in Range(tasks)
  /\ draggingTask = NoTask
  /\ IF preventClick
     THEN /\ UNCHANGED <<selectedTaskIds, formVars>>
          /\ Hist("click", task.id, FALSE)
     ELSE IF isMultiSelectMode
     THEN /\ selectedTaskIds' = (IF task.id \in Range(selectedTaskIds)
                                 THEN SetDelete(selectedTaskIds, task.id)
                                 ELSE SetAdd(selectedTaskIds, task.id))
          /\ UNCHANGED formVars
          /\ Hist("click", task.id, TRUE)
     ELSE /\ editingTask' = task
          /\ isModalOpen' = TRUE
          /\ UNCHANGED <<selectedTaskIds, uuidCount>>
          /\ Hist("click", task.id, TRUE)
  /\ UNCHANGED <<envVars, serviceVars, aiVars, currentView, appVars, listVars, viewMode, draggingTask, dragStartX,
                 dragStartPosition, originalTaskData, originalMultiTaskData,
                 isMultiSelectMode, hasDragged, effHasDragged, preventClick,
                 preventClickTimer, dragTooltip, dragCount, prevDrag>>
  /\ Counted

\* onContextMenu of a task bar: the event the browser dispatches for the
\* right-click in progress on that bar, either at the press (the state the
\* pointer-down left, before the pointer passed the threshold) or at the
\* release of the button, depending on the platform.
barContextMenu(task) ==
  /\ GanttShown
  /\ task \in Range(tasks)
  /\ rightDown = task.id
  /\ \/ draggingTask = task.id /\ ~hasDragged
     \/ draggingTask = NoTask
  /\ rightDown' = NoTask
  /\ IF preventClick
     THEN /\ UNCHANGED formVars
          /\ Hist("context_menu", task.id, FALSE)
     ELSE /\ editingTask' = task
          /\ isModalOpen' = TRUE
          /\ UNCHANGED uuidCount
          /\ Hist("context_menu", task.id, TRUE)
  /\ UNCHANGED <<tz, now, serviceVars, aiVars, currentView, appVars, listVars, ganttVars>>
  /\ Counted

\* tasks.find(t => t.id === taskId)
FindTask(ts, taskId) ==
  ts[CHOOSE i \in DOMAIN ts :
       ts[i].id = taskId /\ \A j \in DOMAIN ts : ts[j].id = taskId => i <= j]

\* The Map handleTaskMouseDown fills: one entry per selected id that names a
\* task, in selection order.
MultiTaskData(ts, sel) ==
  LET present == SelectSeq(sel, LAMBDA id : id \in TaskIds(ts))
  IN  [i \in DOMAIN present |->
         [taskId |-> present[i],
          startDate |-> FindTask(ts, present[i]).startDate,
          endDate |-> FindTask(ts, present[i]).endDate]]

\* handleTaskMouseDown: pointer-down with a mouse button (0 left, 2 right; the
\* handler does not look at it) on the bar of task at clientX, clientY.
\* The drag effect re-runs (draggingTask changed) and captures hasDragged.
\* A right button leaves the browser a contextmenu event to dispatch.
handleTaskMouseDown(task, button, clientX, clientY) ==
  /\ GanttShown
  /\ task \in Range(tasks)
  /\ draggingTask = NoTask
  /\ dragCount' = dragCount + 1
  /\ dragStartPosition' = <<clientX, clientY>>
  /\ dragStartX' = clientX
  /\ hasDragged' = FALSE
  /\ preventClick' = FALSE
  /\ draggingTask' = task.id
  /\ rightDown' = (IF button = 2 THEN task.id ELSE rightDown)
  /\ IF Len(selectedTaskIds) > 1 /\ task.id \in Range(selectedTaskIds)
     THEN /\ originalMultiTaskData' = MultiTaskData(tasks, selectedTaskIds)
          /\ UNCHANGED originalTaskData
     ELSE /\ originalTaskData' = [startDate |-> task.startDate,
                                  endDate |-> task.endDate]
          /\ UNCHANGED originalMultiTaskData
  /\ effHasDragged' = FALSE
  /\ Hist("mouse_down", task.id, TRUE)
  /\ UNCHANGED <<tz, now, serviceVars, aiVars, currentView, appVars, formVars, listVars, viewMode,
                 selectedTaskIds, isMultiSelectMode, dragTooltip,
                 preventClickTimer, prevDrag>>
  /\ Counted

\* handleTaskDateChange of App.
TasksAfterDateChange(ts, taskId, newStartDate, newEndDate) ==
  [i \in DOMAIN ts |->
     IF ts[i].id = taskId
     THEN [ts[i] EXCEPT !.startDate = newStartDate, !.endDate = newEndDate]
     ELSE ts[i]]

\* taskUpdates of the multi-task branch, in Map order.
TaskUpdates(multi, deltaUnits, unit, z) ==
  [i \in DOMAIN multi |->
     [taskId |-> multi[i].taskId,
      newStartDate |-> ShiftedDate(multi[i].startDate, deltaUnits, unit, z),
      newEndDate |-> ShiftedDate(multi[i].endDate, deltaUnits, unit, z)]]

\* taskUpdates.find(u => u.taskId === task.id)
FindUpdate(updates, taskId) ==
  updates[CHOOSE i \in DOMAIN updates :
            updates[i].taskId = taskId
            /\ \A j \in DOMAIN updates : updates[j].taskId = taskId => i <= j]

\* handleMultipleTaskDateChange of App.
TasksAfterMultipleDateChange(ts, updates) ==
  [i \in DOMAIN ts |->
     IF \E j \in DOMAIN updates : updates[j].taskId = ts[i].id
     THEN [ts[i] EXCEPT !.startDate = FindUpdate(updates, ts[i].id).newStartDate,
                        !.endDate = FindUpdate(updates, ts[i].id).newEndDate]
     ELSE ts[i]]

\* The collection a pointer-move of deltaUnits units produces.
TasksAfterMove(deltaUnits) ==
  IF Len(originalMultiTaskData) > 0
  THEN TasksAfterMultipleDateChange(
         tasks, TaskUpdates(originalMultiTaskData, deltaUnits, timeUnit, tz))
  ELSE TasksAfterDateChange(
         tasks, draggingTask,
         ShiftedDate(originalTaskData.startDate, deltaUnits, timeUnit, tz),
         ShiftedDate(originalTaskData.endDate, deltaUnits, timeUnit, tz))

TooltipAfterMove(clientX, clientY, deltaUnits) ==
  LET origin == IF originalTaskData # NoData THEN originalTaskData
                ELSE originalMultiTaskData[1]
  IN  [shown |-> TRUE, x |-> clientX, y |-> clientY - 80,
       startDate |-> LocaleDate(ShiftedInstant(origin.startDate, deltaUnits, timeUnit, tz), tz),
       endDate |-> LocaleDate(ShiftedInstant(origin.endDate, deltaUnits, timeUnit, tz), tz),
       deltaUnits |-> deltaUnits]

\* handleMouseMove of the drag effect.  hasDragged is read from the closure
\* of the last effect run (effHasDragged); the effect re-runs, and captures
\* the current hasDragged, only when one of its dependencies changed, which
\* among the updates of this handler is the collection.
handleMouseMove(clientX, clientY) ==
  /\ draggingTask # NoTask
  /\ LET dX         == clientX - dragStartPosition[1]
         dY         == clientY - dragStartPosition[2]
         below      == ~effHasDragged
                       /\ dX * dX + dY * dY < DRAG_THRESHOLD * DRAG_THRESHOLD
         deltaUnits == MathRound(clientX - dragStartX, unitWidth)
         hasOrigin  == originalTaskData # NoData \/ Len(originalMultiTaskData) > 0
         moves      == /\ ~below /\ deltaUnits # 0
                       /\ \/ Len(originalMultiTaskData) > 0
                          \/ /\ originalTaskData # NoData
                             /\ draggingTask \in TaskIds(tasks)
     IN  /\ hasDragged' = (IF below \/ effHasDragged THEN hasDragged ELSE TRUE)
         /\ preventClick' = (IF below \/ effHasDragged THEN preventClick ELSE TRUE)
         /\ dragTooltip' = (IF ~below /\ deltaUnits # 0 /\ hasOrigin
                            THEN TooltipAfterMove(clientX, clientY, deltaUnits)
                            ELSE dragTooltip)
         /\ IF moves
            THEN /\ tasks' = TasksAfterMove(deltaUnits)
                 /\ syncTasksToYaml(TasksAfterMove(deltaUnits))
                 /\ effHasDragged' = hasDragged'
            ELSE UNCHANGED <<appVars, effHasDragged>>
         /\ Hist("mouse_move", draggingTask, moves)
  /\ UNCHANGED <<envVars, serviceVars, aiVars, currentView, formVars, listVars, viewMode, draggingTask, dragStartX,
                 dragStartPosition, originalTaskData, originalMultiTaskData,
                 selectedTaskIds, isMultiSelectMode, dragCount,
                 preventClickTimer, prevDrag>>
  /\ Counted

\* What the drag that ends at this pointer-up did, for later comparison.
DragAtUp ==
  IF draggingTask \in TaskIds(tasks)
  THEN [id |-> draggingTask,
        multi |-> Len(originalMultiTaskData) > 0,
        startDate |-> IF originalTaskData # NoData THEN originalTaskData.startDate
                      ELSE <<0, 0, 0>>,
        endDate |-> IF originalTaskData # NoData THEN originalTaskData.endDate
                    ELSE <<0, 0, 0>>,
        newStartDate |-> FindTask(tasks, draggingTask).startDate,
        newEndDate |-> FindTask(tasks, draggingTask).endDate,
        deltaUnits |-> dragTooltip.deltaUnits,
        unit |-> timeUnit,
        dragged |-> hasDragged]
  ELSE [NoPrevDrag EXCEPT !.dragged = hasDragged]

\* Faulty variant: the captured dates and the tooltip are cleared only when
\* the drag had passed the threshold.
handleMouseUp_ClearAfterDrag ==
  /\ draggingTask # NoTask
  /\ draggingTask' = NoTask
  /\ dragStartX' = 0
  /\ originalTaskData' = (IF effHasDragged THEN NoData ELSE originalTaskData)
  /\ originalMultiTaskData' = (IF effHasDragged THEN <<>> ELSE originalMultiTaskData)
  /\ hasDragged' = FALSE
  /\ dragStartPosition' = <<0, 0>>
  /\ dragTooltip' = (IF effHasDragged THEN NoTooltip ELSE dragTooltip)
  /\ preventClick' = (IF effHasDragged THEN TRUE ELSE preventClick)
  /\ preventClickTimer' = (IF effHasDragged THEN TRUE ELSE preventClickTimer)
  /\ effHasDragged' = FALSE
  /\ prevDrag' = DragAtUp
  /\ Hist("mouse_up", draggingTask, effHasDragged)
  /\ UNCHANGED <<envVars, serviceVars, aiVars, currentView, appVars, formVars, listVars, viewMode,
                 selectedTaskIds, isMultiSelectMode, dragCount>>
  /\ Counted

\* handleMouseUp of the drag effect; hadDraggedBefore is the closure value.
\* The 100 ms timer that clears preventClick is the action preventClickTimeout.
handleMouseUp ==
  /\ draggingTask # NoTask
  /\ draggingTask' = NoTask
  /\ dragStartX' = 0
  /\ originalTaskData' = NoData
  /\ originalMultiTaskData' = <<>>
  /\ hasDragged' = FALSE
  /\ dragStartPosition' = <<0, 0>>
  /\ dragTooltip' = NoTooltip
  /\ preventClick' = (IF effHasDragged THEN TRUE ELSE preventClick)
  /\ preventClickTimer' = (IF effHasDragged THEN TRUE ELSE preventClickTimer)
  /\ effHasDragged' = FALSE
  /\ prevDrag' = DragAtUp
  /\ Hist("mouse_up", draggingTask, effHasDragged)
  /\ UNCHANGED <<envVars, serviceVars, aiVars, currentView, appVars, formVars, listVars, viewMode,
                 selectedTaskIds, isMultiSelectMode, dragCount>>
  /\ Counted

\* The setTimeout callback of handleMouseUp, 100 ms after a drag ended.
preventClickTimeout ==
  /\ preventClickTimer
  /\ preventClickTimer' = FALSE
  /\ preventClick' = FALSE
  /\ Hist("timeout", NoTask, TRUE)
  /\ UNCHANGED <<envVars, serviceVars, aiVars, currentView, appVars, formVars, listVars, viewMode, draggingTask,
                 dragStartX, dragStartPosition, originalTaskData,
                 originalMultiTaskData, selectedTaskIds, isMultiSelectMode,
                 hasDragged, effHasDragged, dragTooltip, dragCount, prevDrag>>
  /\ Counted

\* ------------------------------------------------------------ Gantt axis
MinOf(S) == CHOOSE x \in S : \A y \in S : x <= y
MaxOf(S) == CHOOSE x \in S : \A y \in S : y <= x

\* Faulty variant: the window starts at the first task's start date, without the scan
\* for the earliest start.
chartMinDate_FirstTask(ts, unit, z, n) ==
  IF Len(ts) = 0 THEN n
  ELSE LET minD == ParseDate(ts[1].startDate)
           dow  == GetDay(minD, z)
       IN  CASE unit = "month" ->
                  NewDateLocal(GetFullYear(minD, z), GetMonth(minD, z), 1, z)
             [] unit = "week" ->
                  SetDate(minD, GetDate(minD, z) - dow + (IF dow = 0 THEN -6 ELSE 1), z)
             [] OTHER -> minD

\* chartMinDate of the useMemo: the earliest start, moved to the first of its
\* local month (month) or to the Monday of its local week (week).
chartMinDate(ts, unit, z, n) ==
  IF Len(ts) = 0 THEN n
  ELSE LET minD == MinOf({ParseDate(ts[i].startDate) : i \in DOMAIN ts})
           dow  == GetDay(minD, z)
       IN  CASE unit = "month" ->
                  NewDateLocal(GetFullYear(minD, z), GetMonth(minD, z), 1, z)
             [] unit = "week" ->
                  SetDate(minD, GetDate(minD, z) - dow + (IF dow = 0 THEN -6 ELSE 1), z)
             [] OTHER -> minD

\* chartMaxDate of the useMemo: the latest end, moved to the last day of its
\* local month (month) or to the Sunday of its local week (week).
chartMaxDate(ts, unit, z, n) ==
  IF Len(ts) = 0 THEN n
  ELSE LET maxD == MaxOf({ParseDate(ts[i].endDate) : i \in DOMAIN ts})
           dow  == GetDay(maxD, z)
       IN  CASE unit = "month" ->
                  NewDateLocal(GetFullYear(maxD, z), GetMonth(maxD, z) + 1, 0, z)
             [] unit = "week" ->
                  SetDate(maxD, GetDate(maxD, z)
                                  + (7 - dow + (IF dow = 0 THEN -6 ELSE 1) - 1), z)
             [] OTHER -> maxD

\* The loop of getDateUnits from currentDate on.
RECURSIVE UnitsFrom(_, _, _, _)
UnitsFrom(currentDate, maxD, unit, z) ==
  IF currentDate <= maxD
  THEN <<currentDate>> \o
       UnitsFrom(CASE unit = "day"  -> SetDate(currentDate, GetDate(currentDate, z) + 1, z)
                   [] unit = "week" -> SetDate(currentDate, GetDate(currentDate, z) + 7, z)
                   [] OTHER         -> SetMonth(currentDate, GetMonth(currentDate, z) + 1, z),
                 maxD, unit, z)
  ELSE <<>>

getDateUnits(ts, unit, z, n) ==
  UnitsFrom(SetHoursZero(chartMinDate(ts, unit, z, n), z),
            chartMaxDate(ts, unit, z, n), unit, z)

\* The instant a column starting at unitStartDate ends at.
UnitEnd(unitStartDate, unit, z) ==
  CASE unit = "day" ->
         NewDateLocal(GetFullYear(unitStartDate, z), GetMonth(unitStartDate, z),
                      GetDate(unitStartDate, z) + 1, z)
    [] unit = "week" ->
         NewDateLocal(GetFullYear(unitStartDate, z), GetMonth(unitStartDate, z),
                      GetDate(unitStartDate, z) + 7, z)
    [] OTHER ->
         NewDateLocal(GetFullYear(unitStartDate, z), GetMonth(unitStartDate, z) + 1, 1, z)

\* The loop of getOffsetUnits at column k: count is k - 1 here; the loop
\* breaks at the first column that ends after the target.
RECURSIVE CountUnits(_, _, _, _, _)
CountUnits(targetDate, dateUnits, unit, z, k) ==
  IF k > Len(dateUnits) \/ targetDate < UnitEnd(dateUnits[k], unit, z)
  THEN k - 1
  ELSE CountUnits(targetDate, dateUnits, unit, z, k + 1)

\* getOffsetUnits: the columns that end at or before the target's local
\* midnight are counted, then Math.max(0, count - 1).
getOffsetUnits(date, dateUnits, unit, z) ==
  LET count == CountUnits(SetHoursZero(date, z), dateUnits, unit, z, 1)
  IN  IF count - 1 > 0 THEN count - 1 ELSE 0

\* --------------------------------------------------- specification: store
\* The collection handlers of App with the form and the YAML editor.
InitStore == InitWith(CleanDocs \cup {NoStored}, {9})

NextStore ==
  \/ \E id \in TaskIds(tasks), c \in BOOLEAN : handleDeleteTask(id, c)
  \/ setCurrentView("split-list-ai")
  \/ \E doc \in YamlDocs : handlePromptSubmit(doc)
  \/ \E doc \in YamlDocs \ ValidDocs : handleDirectYamlSubmit(doc)
  \/ Reload
  \/ openNewTaskModal
  \/ \E t \in Range(tasks) : handleEditTask(t)
  \/ onCancel
  \/ \E f \in FormFields, cl \in {<<>>} \cup {<<id>> : id \in TaskIds(tasks)} :
       handleSubmit(f, cl)

SpecStore == InitStore /\ [][NextStore]_vars

\* ---------------------------------------------------- specification: bulk
\* The list view in selection mode: single delete and the bulk operations.
InitBulk == InitWith(ValidDocs \cup {NoStored}, {9})

NextBulk ==
  \/ \E id \in TaskIds(tasks), c \in BOOLEAN : handleDeleteTask(id, c)
  \/ toggleSelectionMode
  \/ \E id \in TaskIds(tasks), b \in BOOLEAN : handleTaskSelection(id, b)
  \/ handleSelectAll
  \/ \E c \in BOOLEAN, a \in [Range(selectedTasks) -> BOOLEAN] : handleBulkDelete(c, a)
  \/ \E st \in {IN_PROGRESS, COMPLETED} : handleBulkStatusChange(st)

SpecBulk == InitBulk /\ [][NextBulk]_vars

\* ------------------------------------------------- specification: reorder
\* The list view out of selection mode: filters, sorting and drag-reorder.
InitReorder == InitWith(ValidDocs, {9})

NextReorder ==
  \/ \E key \in SortKeys : handleSort(key)
  \/ \E v \in {"all", COMPLETED, NOT_STARTED} : setFilters("status", v)
  \/ \E v \in {"all", HIGH} : setFilters("priority", v)
  \/ \E v \in {"all", "today", "thisWeek", "thisMonth"} : setFilters("dateRange", v)
  \/ \E src \in 1..MaxTasks, hd \in BOOLEAN, dst \in 1..MaxTasks : handleDragEnd(src, hd, dst)

SpecReorder == InitReorder /\ [][NextReorder]_vars

\* ---------------------------------------------------- specification: drag
\* The Gantt chart with single-task drags in the three granularities.
TaskE == Task("e", "E", IN_PROGRESS, HIGH, D(1, 31), D(2, 29), <<"m">>)

DragDocs == { ListDoc(<<MapEntry(TaskE), MapEntry(TaskM)>>) }

DownX == 100
DownY == 50

\* Pointer positions of a move: below the threshold, past it without a
\* horizontal unit, and whole units left and right of the pointer-down.
MovePositions ==
  {<<DownX + 3, DownY>>, <<DownX, DownY + 10>>}
    \cup {<<DownX + k * unitWidth, DownY>> : k \in (-MaxDragUnits..MaxDragUnits) \ {0}}

\* The chart is checked west of, at and east of UTC.
DragZones == TimeZones \cup {-5}

InitDrag == InitWith(DragDocs, DragZones)

NextDrag ==
  \/ setCurrentView("gantt")
  \/ \E mode \in GanttViewMode : setViewMode(mode)
  \/ \E t \in Range(tasks) : dragCount < MaxDrags /\ handleTaskMouseDown(t, 0, DownX, DownY)
  \/ \E pos \in MovePositions : handleMouseMove(pos[1], pos[2])
  \/ handleMouseUp
  \/ preventClickTimeout

SpecDrag == InitDrag /\ [][NextDrag]_vars

\* ---------------------------------------------------- specification: axis
\* The Gantt chart with one dragged bar, for the axis window.
TaskX == Task("x", "X", NOT_STARTED, LOW, D(1, 30), D(1, 31), <<>>)
TaskY == Task("y", "Y", IN_PROGRESS, MEDIUM, D(2, 1), D(2, 4), <<"x">>)

\* The later task comes first in the collection.
AxisDocs == { ListDoc(<<MapEntry(TaskY), MapEntry(TaskX)>>) }

InitAxis == InitWith(AxisDocs, DragZones)

\* Pointer positions whole units left and right of the pointer-down.
UnitPositions ==
  {<<DownX + k * unitWidth, DownY>> : k \in (-MaxDragUnits..MaxDragUnits) \ {0}}

NextAxis ==
  \/ setCurrentView("gantt")
  \/ \E mode \in GanttViewMode : setViewMode(mode)
  \/ \E t \in Range(tasks) : dragCount < MaxAxisDrags /\ handleTaskMouseDown(t, 0, DownX, DownY)
  \/ \E pos \in UnitPositions : handleMouseMove(pos[1], pos[2])
  \/ handleMouseUp

SpecAxis == InitAxis /\ [][NextAxis]_vars

\* --------------------------------------------------- specification: multi
\* The Gantt chart with multi-selection and drags of selected bars.
MultiDocs ==
  { ListDoc(<<MapEntry(TaskC), MapEntry(TaskA), MapEntry(TaskB)>>),
    ListDoc(<<MapEntry(TaskM), MapEntry(TaskDup), MapEntry(TaskA)>>) }

InitMulti == InitWith(MultiDocs, {9})

NextMulti ==
  \/ setCurrentView("gantt")
  \/ \E mode \in GanttViewMode : setViewMode(mode)
  \/ clickMultiSelectButton
  \/ clickClearSelection
  \/ \E t \in Range(tasks) : barClick(t)
  \/ onCancel
  \/ \E t \in Range(tasks) : dragCount < MaxMultiDrags /\ handleTaskMouseDown(t, 0, DownX, DownY)
  \/ \E pos \in MovePositions : handleMouseMove(pos[1], pos[2])
  \/ handleMouseUp
  \/ preventClickTimeout

SpecMulti == InitMulti /\ [][NextMulti]_vars

\* ---------------------------------------------------- specification: sync
\* Every handler that rewrites the collection, in one application: the form,
\* the list with its bulk operations and drag-reorder, the chart with single
\* and multi-task drags, and the AI rewrite.
SyncDocs ==
  { SyntaxErrorDoc, NotAListDoc,
    ListDoc(<<NullEntry, MapEntry(TaskNoName), MapEntry(TaskB), MapEntry(TaskNoId)>>) }

\* The form inputs of this specification: one accepted, one rejected.
SyncFormFields == {f \in FormFields : f.name \in {"F", " "}}

InitSync == InitWith({ListDoc(<<MapEntry(TaskA), MapEntry(TaskB)>>)}, {9})

\* The budget of collection rewrites of this specification.
InBudget == mutations < MaxMutations

NextSync ==
  \/ \E view \in {"list", "gantt", "ai"} : setCurrentView(view)
  \/ \E id \in TaskIds(tasks), c \in BOOLEAN : InBudget /\ handleDeleteTask(id, c)
  \/ \E doc \in SyncDocs : InBudget /\ handlePromptSubmit(doc)
  \/ openNewTaskModal
  \/ \E t \in Range(tasks) : handleEditTask(t)
  \/ onCancel
  \/ \E f \in SyncFormFields : InBudget /\ handleSubmit(f, <<>>)
  \/ toggleSelectionMode
  \/ handleSelectAll
  \/ \E c \in BOOLEAN, a \in [Range(selectedTasks) -> BOOLEAN] : InBudget /\ handleBulkDelete(c, a)
  \/ InBudget /\ handleBulkStatusChange(COMPLETED)
  \/ \E src \in 1..MaxTasks, hd \in BOOLEAN, dst \in 1..MaxTasks : InBudget /\ handleDragEnd(src, hd, dst)
  \/ clickMultiSelectButton
  \/ \E t \in Range(tasks) : barClick(t)
  \/ \E t \in Range(tasks) : dragCount < MaxMultiDrags /\ handleTaskMouseDown(t, 0, DownX, DownY)
  \/ \E pos \in MovePositions : InBudget /\ handleMouseMove(pos[1], pos[2])
  \/ handleMouseUp
  \/ preventClickTimeout

SpecSync == InitSync /\ [][NextSync]_vars

\* --------------------------------------------------- specification: click
\* The Gantt chart with drags, the click that follows a pointer-up and
\* right-clicks.  A right-click is a pointer-down with the right button, with
\* the contextmenu event dispatched either at the press or right after the
\* release; nothing else happens between the press and the contextmenu event
\* than pointer moves and the release.
InitClick == InitWith(DragDocs, {9})

NoRightClick == rightDown = NoTask

NextClick ==
  \/ setCurrentView("gantt")
  \/ NoRightClick /\ clickMultiSelectButton
  \/ \E t \in Range(tasks) : NoRightClick /\ barClick(t)
  \/ \E t \in Range(tasks) : barContextMenu(t)
  \/ NoRightClick /\ onCancel
  \/ \E t \in Range(tasks), button \in {0, 2} :
       NoRightClick /\ dragCount < MaxDrags /\ handleTaskMouseDown(t, button, DownX, DownY)
  \/ \E pos \in MovePositions : handleMouseMove(pos[1], pos[2])
  \/ handleMouseUp
  \/ preventClickTimeout

SpecClick == InitClick /\ [][NextClick]_vars

\* ------------------------------------------------------ specification: ai
\* The AI panel: summaries and rewrites as calls that settle later, the YAML
\* editor, and the view buttons that can be reached while a call is in
\* flight.
AiDocs == {SyntaxErrorDoc, NotAListDoc, ListDoc(<<MapEntry(TaskC)>>), ListDoc(<<>>)}

InitAi == InitWith({ListDoc(<<MapEntry(TaskA), MapEntry(TaskB)>>)}, {9})

NextAi ==
  \/ \E view \in {"list", "ai", "split-list-ai", "split-gantt-ai"} : setCurrentView(view)
  \/ \E early \in EarlyFailures \cup {"no_tasks", "sent"} : fetchSummary(early)
  \/ \E i \in DOMAIN pending, outcome \in SentFailures \cup {"ok"} :
       fetchSummarySettles(i, outcome)
  \/ \E userPrompt \in {" ", "p"}, early \in EarlyFailures \cup {"sent"} :
       submitPrompt(userPrompt, early)
  \/ \E i \in DOMAIN pending, outcome \in SentFailures \cup {"invalid_response", "ok"},
        doc \in AiDocs :
       updateTasksViaAiSettles(i, outcome, doc)
  \/ \E doc \in AiDocs : handleDirectYamlSubmit(doc)
  \/ \E id \in TaskIds(tasks) : handleDeleteTask(id, TRUE)

SpecAi == InitAi /\ [][NextAi]_vars

\* ---------------------------------------------------- specification: form
\* The modal form over a collection loaded from YAML in which a task names
\* itself among its dependencies (the loader does not look at dependencies).
TaskSelf == Task("s", "S", NOT_STARTED, MEDIUM, D(1, 1), D(1, 2), <<"s">>)

InitForm == InitWith({ListDoc(<<MapEntry(TaskSelf), MapEntry(TaskA)>>)}, {9})

NextForm ==
  \/ openNewTaskModal
  \/ \E t \in Range(tasks) : handleEditTask(t)
  \/ onCancel
  \/ \E f \in FormFields, cl \in {<<>>} \cup {<<id>> : id \in TaskIds(tasks)} :
       handleSubmit(f, cl)
  \/ \E id \in TaskIds(tasks), c \in BOOLEAN : handleDeleteTask(id, c)

SpecForm == InitForm /\ [][NextForm]_vars

\* ---------------------------------------------------- specification: sort
\* The list view with its sort headers, over collections with ties under
\* every sort key and over one without ties; drag-reorder changes the array
\* order the ties fall back to.
TaskP == Task("p", "P", NOT_STARTED, HIGH, D(1, 3), D(1, 4), <<>>)
TaskQ == Task("q", "Q", NOT_STARTED, LOW, D(1, 1), D(1, 4), <<>>)
TaskR == Task("r", "R", COMPLETED, HIGH, D(1, 3), D(1, 5), <<>>)

SortDocs ==
  { ListDoc(<<MapEntry(TaskP), MapEntry(TaskQ), MapEntry(TaskR)>>),
    ListDoc(<<MapEntry(TaskR), MapEntry(TaskQ), MapEntry(TaskP)>>),
    ListDoc(<<MapEntry(TaskC), MapEntry(TaskA), MapEntry(TaskB)>>) }

InitSort == InitWith(SortDocs, {9})

NextSort ==
  \/ \E key \in SortKeys : handleSort(key)
  \/ \E v \in {"all", NOT_STARTED} : setFilters("status", v)
  \/ \E src \in 1..MaxTasks, dst \in 1..MaxTasks : handleDragEnd(src, TRUE, dst)

SpecSort == InitSort /\ [][NextSort]_vars

\* ================================================================= claims
SameExceptDependencies(t, u) ==
  [t EXCEPT !.dependencies = <<>>] = [u EXCEPT !.dependencies = <<>>]

\* Position among the kept indices (1-based) of a kept index i.
RankIn(kept, i) == Cardinality({j \in kept : j <= i})

\* C1: a confirmed delete of task X leaves no task with id X and no
\* dependency on X; the remaining tasks keep their order and every other
\* field; a declined confirmation changes nothing.
C1_DeleteStripsDependencies ==
  [][lastOp'.op = "delete" =>
       IF lastOp'.ok
       THEN LET X    == lastOp'.id
                kept == {i \in DOMAIN tasks : tasks[i].id # X}
            IN  /\ Len(tasks') = Cardinality(kept)
                /\ \A i \in kept :
                     /\ SameExceptDependencies(tasks'[RankIn(kept, i)], tasks[i])
                     /\ X \notin Range(tasks'[RankIn(kept, i)].dependencies)
                     /\ tasks'[RankIn(kept, i)].dependencies =
                          SelectSeq(tasks[i].dependencies, LAMBDA d : d # X)
       ELSE /\ tasks' = tasks
            /\ stored' = stored
            /\ yamlString' = yamlString]_vars

\* C1 witness: A and B-depends-on-A, delete A, leaves exactly B without
\* dependencies.
C1_Witness ==
  /\ lastOp = Op("delete", "a", TRUE)
  /\ tasks = <<[TaskB EXCEPT !.dependencies = <<>>]>>

\* C2: after a bulk delete confirmed for a selection S (every confirmation
\* accepted) no task whose id is in S remains.
C2_BulkDeleteRemovesSelection ==
  [][(lastOp'.op = "bulk_delete" /\ lastOp'.ok) =>
       \A i \in DOMAIN tasks' : tasks'[i].id \notin Range(selectedTasks)]_vars

\* A text that is not a list of task records.
InvalidTaskList(doc) ==
  \/ doc.kind # "list"
  \/ \E i \in DOMAIN doc.items : ~EntryKept(doc.items[i])

\* C3: when the text handed to handleYamlUpdateByAi is not a valid task list
\* an error is surfaced and the collection and the stored YAML stay as they
\* were.
C3_InvalidYamlKeepsState ==
  [][(/\ \/ lastOp'.op = "ai_rewrite"
         \/ (lastOp'.op = "direct_yaml" /\ lastOp'.ok)
      /\ InvalidTaskList(yamlString')) =>
       (error' # "none" /\ tasks' = tasks /\ stored' = stored)]_vars

\* C9: the ids of the tasks in the collection are pairwise distinct in
\* every reachable state.
C9_IdsDistinct ==
  \A i, j \in DOMAIN tasks : i # j => tasks[i].id # tasks[j].id

\* The number of occurrences of record r in a sequence.
Count(ts, r) == Cardinality({i \in DOMAIN ts : ts[i] = r})

\* C8: a drag-reorder changes only the order: the tasks held before and
\* after are the same records, whatever filters and sort are active.
C8_ReorderKeepsTasks ==
  [][(lastOp'.op = "reorder" /\ lastOp'.ok) =>
       \A r \in Range(tasks) \cup Range(tasks') :
          Count(tasks', r) = Count(tasks, r)]_vars

\* ------------------------------------------------------------ drag claims
DayNumber(s) == DaysFromCivil(s[1], s[2], s[3])
MonthNumber(s) == s[1] * 12 + s[2]

\* Date string b is date string a moved by n units: n days, 7n days, or n
\* calendar months.
MovedByUnits(a, b, n, unit) ==
  CASE unit = "day"  -> DayNumber(b) = DayNumber(a) + n
    [] unit = "week" -> DayNumber(b) = DayNumber(a) + 7 * n
    [] OTHER         -> MonthNumber(b) = MonthNumber(a) + n

\* A pointer-move of a single-task drag has just rewritten the dates.
SingleDragMoved ==
  /\ lastOp.op = "mouse_move" /\ lastOp.ok
  /\ draggingTask # NoTask
  /\ originalTaskData # NoData
  /\ Len(originalMultiTaskData) = 0

\* C5: a drag by N units followed by a drag of the same task by -N units in
\* the same granularity restores the start and end dates the task had before
\* the first drag.
C5_DragRoundTrip ==
  (/\ SingleDragMoved
   /\ prevDrag.id = draggingTask /\ ~prevDrag.multi
   /\ prevDrag.unit = timeUnit
   /\ prevDrag.deltaUnits # 0
   /\ originalTaskData.startDate = prevDrag.newStartDate
   /\ originalTaskData.endDate = prevDrag.newEndDate
   /\ dragTooltip.deltaUnits = -prevDrag.deltaUnits)
  => /\ FindTask(tasks, draggingTask).startDate = prevDrag.startDate
     /\ FindTask(tasks, draggingTask).endDate = prevDrag.endDate

\* C6: a drag by N units moves start and end date of the dragged task by N
\* units (N days, 7N days, N calendar months) from the dates at pointer-down
\* and keeps the duration in days.
C6_DragShiftsBothDates ==
  SingleDragMoved =>
    LET t == FindTask(tasks, draggingTask)
        o == originalTaskData
        N == dragTooltip.deltaUnits
    IN  /\ MovedByUnits(o.startDate, t.startDate, N, timeUnit)
        /\ MovedByUnits(o.endDate, t.endDate, N, timeUnit)
        /\ DayNumber(t.endDate) - DayNumber(t.startDate)
             = DayNumber(o.endDate) - DayNumber(o.startDate)

\* A pointer-move of a multi-task drag has just rewritten the dates.
MultiDragMoved ==
  /\ lastOp.op = "mouse_move" /\ lastOp.ok
  /\ Len(originalMultiTaskData) > 0

\* C7: in a multi-task drag every selected task carries its own pointer-down
\* dates shifted by the one unit delta of the move, and every other task,
\* and every other field, is as it was at pointer-down.
C7_MultiDragShiftsSelection ==
  MultiDragMoved =>
    /\ Len(tasks) = Len(tasksAtDown)
    /\ \A i \in DOMAIN tasks :
         IF tasksAtDown[i].id \in Range(selectedTaskIds)
         THEN tasks[i] =
                [tasksAtDown[i] EXCEPT
                   !.startDate = ShiftedDate(tasksAtDown[i].startDate,
                                             dragTooltip.deltaUnits, timeUnit, tz),
                   !.endDate = ShiftedDate(tasksAtDown[i].endDate,
                                           dragTooltip.deltaUnits, timeUnit, tz)]
         ELSE tasks[i] = tasksAtDown[i]

\* The local calendar day an axis instant is shown as.
AxisDay(t) == LocalDay(t, tz)

MutationOps ==
  {"add", "edit", "delete", "bulk_delete", "bulk_status", "reorder",
   "mouse_move", "ai_rewrite", "direct_yaml"}

InColumn(date, dateUnits, k, unit, z) ==
  /\ dateUnits[k] <= SetHoursZero(date, z)
  /\ SetHoursZero(date, z) < UnitEnd(dateUnits[k], unit, z)

\* C11: a bar's offset in units is the zero-based index of the axis column
\* that contains the task's start date: 0 for the first column, 1 for the
\* next one, and different columns give different offsets.
C11_OffsetIsColumnIndex ==
  LET dateUnits == getDateUnits(tasks, timeUnit, tz, now)
  IN  \A i \in DOMAIN tasks : \A k \in DOMAIN dateUnits :
        (GanttMounted
           /\ InColumn(ParseDate(tasks[i].startDate), dateUnits, k, timeUnit, tz)) =>
          getOffsetUnits(ParseDate(tasks[i].startDate), dateUnits, timeUnit, tz) = k - 1

\* C12: after a drag that passed the 5px threshold, the click that
\* immediately follows the pointer-up is suppressed: it opens no edit form
\* and toggles no selection, whether or not the drag changed a date.
C12_ClickAfterDragSuppressed ==
  [][(lastOp.op = "mouse_up" /\ prevDrag.dragged /\ lastOp'.op = "click") =>
       /\ ~lastOp'.ok
       /\ UNCHANGED <<isModalOpen, editingTask, selectedTaskIds>>]_vars

\* C13: a right-click on a task bar always opens the edit form for that
\* task, in normal and in multi-select mode, in every state of the chart.
C13_RightClickOpensForm ==
  [][lastOp'.op = "context_menu" =>
       /\ isModalOpen'
       /\ editingTask' \in Range(tasks')
       /\ editingTask'.id = lastOp'.id]_vars

\* C14 as stated: while a summarize or rewrite call is in flight and the AI
\* panel is on screen, a second call can be started.
C14_SecondRequestCanStart ==
  (Len(pending) > 0 /\ AiMounted /\ ~isModalOpen) =>
    ENABLED (\/ fetchSummary("sent")
             \/ submitPrompt("p", "sent"))

\* C14 amended: no second call can be started while one is in flight, so at
\* most one call is in flight, isLoading is set exactly while it is, and a
\* rewrite response is applied with no other call pending.
C14_OneRequestInFlight ==
  /\ Len(pending) <= 1
  /\ isLoading <=> Len(pending) = 1
  /\ Len(pending) = 1 =>
       ~ENABLED (\/ \E early \in EarlyFailures \cup {"no_tasks", "sent"} : fetchSummary(early)
                 \/ \E early \in EarlyFailures \cup {"sent"} : submitPrompt("p", early)
                 \/ \E doc \in AiDocs : handleDirectYamlSubmit(doc))

\* C14 witness: a rewrite call is in flight with the AI panel on screen.
C14_Witness ==
  /\ Len(pending) = 1 /\ pending[1].kind = "rewrite"
  /\ AiMounted /\ currentView = "ai"
  /\ lastOp = Op("ai_request", "sent", TRUE)

\* The failure a step of an AI-service call ended with.
AiFailureStep ==
  /\ lastOp'.op \in {"summary", "summary_settled", "ai_request", "ai_failed"}
  /\ lastOp'.id \in AiFailures

\* C15: every failure of an AI-service call ends with a message the user can
\* see (the error banner, or the summary text of the mounted AI panel), the
\* collection and the stored YAML unchanged, no call issued again, and
\* isLoading false.
C15_AiFailureHandled ==
  [][AiFailureStep =>
       /\ \/ error' # "none"
          \/ AiMounted' /\ aiSummary' = lastOp'.id
       /\ tasks' = tasks
       /\ stored' = stored
       /\ Len(pending') <= Len(pending)
       /\ ~isLoading']_vars

\* Form input the claim says is refused: a name of white space only, or a
\* start date after the end date.
RefusedInput(f) ==
  \/ f.name \in {"", " "}
  \/ DayNumber(f.startDate) > DayNumber(f.endDate)

\* C16: submitting the form with a name of white space only or with
\* startDate after endDate changes nothing (collection, stored YAML and the
\* open form stay as they were), and every task created or edited through
\* the form has startDate <= endDate.
C16_InvalidFormRefused ==
  [][/\ \A f \in FormFields, cl \in {<<>>} \cup {<<id>> : id \in TaskIds(tasks)} :
          (RefusedInput(f) /\ handleSubmit(f, cl)) =>
            /\ lastOp'.op = "submit"
            /\ UNCHANGED <<tasks, stored, yamlString, isModalOpen, editingTask>>
     /\ lastOp'.op \in {"add", "edit"} =>
          \A i \in DOMAIN tasks' :
            tasks'[i].id = lastOp'.id =>
              DayNumber(tasks'[i].startDate) <= DayNumber(tasks'[i].endDate)]_vars

\* C16 witness: the form is still open on the task being edited after a
\* submission that was refused.
C16_Witness ==
  /\ lastOp = Op("submit", NoTask, FALSE)
  /\ isModalOpen
  /\ editingTask # NoEditing

\* C17: after an edit-form submission for an existing task, the task's
\* dependencies do not contain its own id, whatever they were before, and
\* the open form does not offer the edited task as a dependency.
C17_NoSelfDependencyAfterEdit ==
  [][/\ lastOp'.op = "edit" =>
          \A i \in DOMAIN tasks' :
            tasks'[i].id = lastOp'.id => lastOp'.id \notin Range(tasks'[i].dependencies)
     /\ (isModalOpen' /\ editingTask' # NoEditing) =>
          editingTask'.id \notin availableDependencies']_vars

\* ------------------------------------------------------------ sort claims
\* The position of a task in the collection (ids are distinct here).
IndexIn(ts, t) == CHOOSE i \in DOMAIN ts : ts[i] = t

Reverse(s) == [i \in DOMAIN s |-> s[Len(s) + 1 - i]]

NoTies(ts, key) ==
  \A i, j \in DOMAIN ts : i # j => SortValue(ts[i], key) # SortValue(ts[j], key)

\* C18: for every sort key and both directions the displayed list holds the
\* filtered tasks, and tasks that are equal under the key appear in the order
\* they have in the tasks array.
C18_TiesKeepArrayOrder ==
  /\ Len(sortedTasks) = Len(filteredTasks)
  /\ Range(sortedTasks) = Range(filteredTasks)
  /\ \A p, q \in DOMAIN sortedTasks :
       (p < q /\ SortValue(sortedTasks[p], sortKey) = SortValue(sortedTasks[q], sortKey)) =>
         IndexIn(tasks, sortedTasks[p]) < IndexIn(tasks, sortedTasks[q])

\* C18 witness: a descending sort by priority shows two tasks of equal
\* priority, in an order other than the array's.
C18_Witness ==
  /\ sortKey = "priority" /\ sortOrder = "desc"
  /\ lastOp.op = "sort"
  /\ sortedTasks # tasks
  /\ \E p, q \in DOMAIN sortedTasks :
       p < q /\ sortedTasks[p].priority = sortedTasks[q].priority

\* C19: with no two displayed tasks tied under the sort key, the descending
\* order is the reverse of the ascending order; a click on the active sort
\* key flips the direction and the displayed list, so two clicks return the
\* original displayed order.
C19_DescendingIsReverse ==
  [][/\ NoTies(filteredTasks, sortKey) =>
          StableSort(filteredTasks, sortKey, "desc")
            = Reverse(StableSort(filteredTasks, sortKey, "asc"))
     /\ (lastOp'.op = "sort" /\ sortKey' = sortKey) =>
          /\ {sortOrder, sortOrder'} = {"asc", "desc"}
          /\ NoTies(filteredTasks, sortKey) => sortedTasks' = Reverse(sortedTasks)]_vars

\* C19 witness: the active key was clicked, the list has no ties under it and
\* is shown in descending order, which is not the array order.
C19_Witness ==
  /\ lastOp.op = "sort" /\ sortOrder = "desc" /\ sortKey = "status"
  /\ Len(filteredTasks) = 3
  /\ NoTies(filteredTasks, sortKey)
  /\ sortedTasks # tasks

DateText(date) == [date |-> date, time |-> <<>>]
DateTimeText(date, h, m, s) == [date |-> date, time |-> <<h, m, s>>]

\* formatDateForGoogleCalendar: the local year, month and day of the parsed
\* date string.
formatDateForGoogleCalendar(dateString, z) ==
  DateText(LocaleDate(ParseDate(dateString), z))

\* date.setHours(h, 0, 0, 0): the local day of the instant, at h o'clock.
SetHours(t, h, z) == LocalDay(t, z) * 24 + h - z

\* formatDateTimeForGoogleCalendar: 09:00 (start) or 18:00 (end) local time
\* on the local day of the parsed date string.
formatDateTimeForGoogleCalendar(dateString, isEndDate, z) ==
  LET date == SetHours(ParseDate(dateString), IF isEndDate THEN 18 ELSE 9, z)
  IN  DateTimeText(LocaleDate(date, z), LocalHour(date, z), 0, 0)

\* generateTaskDescription: the lines of the event's details.
generateTaskDescription(task) ==
  [priority |-> task.priority, status |-> task.status,
   startDate |-> task.startDate, endDate |-> task.endDate,
   dependencies |-> task.dependencies]

\* createGoogleCalendarUrl: the query parameters of the template URL.
createGoogleCalendarUrl(params, z) ==
  LET startDate == ParseDate(params.startDate)
      endDate   == ParseDate(params.endDate)
      endDatePlusOne == SetDate(endDate, GetDate(endDate, z) + 1, z)
  IN  [action |-> "TEMPLATE",
       text |-> params.title,
       details |-> params.description,
       dates |-> IF LocaleDate(startDate, z) = LocaleDate(endDate, z)
                 THEN <<formatDateTimeForGoogleCalendar(params.startDate, FALSE, z),
                        formatDateTimeForGoogleCalendar(params.endDate, TRUE, z)>>
                 ELSE <<formatDateForGoogleCalendar(params.startDate, z),
                        formatDateForGoogleCalendar(ToISODate(endDatePlusOne), z)>>,
       ctz |-> "Asia/Tokyo"]

getGoogleCalendarUrlForTask(task, z) ==
  createGoogleCalendarUrl([title |-> task.name,
                           description |-> generateTaskDescription(task),
                           startDate |-> task.startDate,
                           endDate |-> task.endDate], z)

\* window.open(url, '_blank'); `timer` is the call of
\* exportMultipleTasksToGoogleCalendar whose setTimeout callback opened the tab.
Tab(url, timer) == [url |-> url, timer |-> timer]

\* Calls of exportMultipleTasksToGoogleCalendar in one session.
MaxExports == 2

\* exportMultipleTasksToGoogleCalendar asks above this many tasks.
ConfirmThreshold == 10

\* Faulty variant: the confirmation is never asked.
NeedsConfirm_Never(ts) == FALSE

NeedsConfirm(ts) == Len(ts) > ConfirmThreshold

\* setTimeout callbacks run in the order they fall due.  The callbacks of one
\* call are due 100 ms apart, so those of two calls alternate.
RECURSIVE Interleave(_, _)
Interleave(a, b) ==
  IF a = <<>> THEN b ELSE <<Head(a)>> \o Interleave(b, Tail(a))

\* exportMultipleTasksToGoogleCalendar(ts).  `answer` is what the user
\* answers if confirm() is shown; `overdue` tells whether a callback of an
\* earlier call is already due when this call is made.  A call is recorded
\* with the dialogs it showed; it leaves one setTimeout callback per task.
exportMultipleTasksToGoogleCalendar(ts, answer, overdue) ==
  /\ Len(exportCalls) < MaxExports
  /\ LET c       == Len(exportCalls) + 1
         asked   == Len(ts) # 0 /\ NeedsConfirm(ts)
         proceed == Len(ts) # 0 /\ (asked => answer)
         new     == IF proceed THEN [i \in DOMAIN ts |-> [task |-> ts[i], call |-> c]]
                    ELSE <<>>
     IN  /\ exportCalls' = Append(exportCalls,
              [tasks |-> ts,
               dialogs |-> (IF Len(ts) = 0 THEN <<"alert_no_tasks">> ELSE <<>>)
                           \o (IF asked THEN <<"confirm">> ELSE <<>>)
                           \o (IF proceed THEN <<"alert_exported">> ELSE <<>>),
               confirmed |-> asked /\ answer])
         /\ timers' = IF overdue THEN Interleave(timers, new) ELSE Interleave(new, timers)
  /\ UNCHANGED openedTabs

\* The "export all" button of the list's header.
handleExportAllToCalendar(answer, overdue) ==
  /\ ListShown
  /\ exportMultipleTasksToGoogleCalendar(tasks, answer, overdue)
  /\ UNCHANGED <<envVars, geminiVars, panelVars, aiVars, currentView, appVars, formVars,
                 listVars, ganttVars>>
  /\ Hist("export_all", NoTask, TRUE)
  /\ Counted

\* exportSelectedTasksToGoogleCalendar(selectedTaskIds, allTasks).
exportSelectedTasksToGoogleCalendar(ids, allTasks, answer, overdue) ==
  /\ exportMultipleTasksToGoogleCalendar(
       KeepIndices(allTasks, {i \in DOMAIN allTasks : allTasks[i].id \in ids}, 1),
       answer, overdue)
  /\ UNCHANGED <<envVars, geminiVars, panelVars, aiVars, currentView, appVars, formVars,
                 listVars, ganttVars>>
  /\ Hist("export_selected", NoTask, TRUE)
  /\ Counted

\* The setTimeout callback that is due next runs: exportTaskToGoogleCalendar
\* of the task it closed over.
exportTimerFires ==
  /\ timers # <<>>
  /\ openedTabs' = Append(openedTabs,
       Tab(getGoogleCalendarUrlForTask(Head(timers).task, tz), Head(timers).call))
  /\ timers' = Tail(timers)
  /\ UNCHANGED exportCalls
  /\ UNCHANGED <<envVars, geminiVars, panelVars, aiVars, currentView, appVars, formVars,
                 listVars, ganttVars>>
  /\ Hist("export_timer", Head(timers).task.id, TRUE)
  /\ Counted

\* Stored collections for the export: a same-day task, a task that ends on
\* the last day of a month, and a list longer than the threshold.
TaskDay == Task("d", "Day", NOT_STARTED, HIGH, D(1, 15), D(1, 15), <<>>)
TaskMonth == Task("m", "Month", IN_PROGRESS, LOW, D(1, 1), D(1, 31), <<"d">>)
ManyTasks ==
  [i \in 1..(ConfirmThreshold + 1) |->
     Task(ToString(i), "Many", NOT_STARTED, LOW, D(1, i), D(1, i + 1), <<>>)]

CalendarDocs ==
  {ListDoc(<<MapEntry(TaskDay), MapEntry(TaskMonth)>>),
   ListDoc(<<MapEntry(TaskMonth), MapEntry(TaskA), MapEntry(TaskDay)>>),
   ListDoc([i \in DOMAIN ManyTasks |-> MapEntry(ManyTasks[i])])}

\* The export is checked west and east of UTC.
CalendarZones == {-5, 9}

InitCalendar == InitWith(CalendarDocs, CalendarZones)

\* The moments a call is made at: when no callback is pending, or right after
\* another call, whose first callback is then already due.
ExportMoment == timers = <<>> \/ lastOp.op \in {"export_all", "export_selected"}

NextCalendar ==
  \/ \E answer \in BOOLEAN : ExportMoment /\ handleExportAllToCalendar(answer, TRUE)
  \/ \E ids \in {{}, {tasks[1].id}} :
       ExportMoment /\ exportSelectedTasksToGoogleCalendar(ids, tasks, TRUE, TRUE)
  \/ exportTimerFires

SpecCalendar == InitCalendar /\ [][NextCalendar]_vars

\* The browser's event loop runs every setTimeout callback that is due.
\* exportTimerFires is the only step that takes the head off the queue, so
\* fairness is stated on the steps that do.
exportTimerStep == timers # <<>> /\ timers' = Tail(timers)

SpecCalendarLive == SpecCalendar /\ WF_timers(exportTimerStep)

\* C21: every calendar URL opened for a task has, as its 'dates', a timed
\* range from 09:00 to 18:00 on the task's day when the task starts and ends
\* on the same day, and otherwise the date-only range from its start date to
\* the day after its end date.
C21_DatesRange ==
  \A k \in DOMAIN openedTabs :
    LET startDate == openedTabs[k].url.details.startDate
        endDate   == openedTabs[k].url.details.endDate
    IN  openedTabs[k].url.dates =
          IF startDate = endDate
          THEN <<DateTimeText(startDate, 9, 0, 0), DateTimeText(startDate, 18, 0, 0)>>
          ELSE <<DateText(startDate), DateText(ToISODate(ParseDate(endDate) + 24))>>

\* The URLs of the tabs opened by the callbacks of call c, in opening order.
CallTabs(c) ==
  LET tabs == KeepIndices(openedTabs, {k \in DOMAIN openedTabs : openedTabs[k].timer = c}, 1)
  IN  [k \in DOMAIN tabs |-> tabs[k].url]

ExpectedTabs(c) ==
  [i \in DOMAIN exportCalls[c].tasks |->
     getGoogleCalendarUrlForTask(exportCalls[c].tasks[i], tz)]

IsPrefix(a, b) == Len(a) <= Len(b) /\ \A i \in DOMAIN a : a[i] = b[i]

ExportProceeds(c) ==
  /\ c \in DOMAIN exportCalls
  /\ Len(exportCalls[c].tasks) > 0
  /\ Len(exportCalls[c].tasks) > ConfirmThreshold => exportCalls[c].confirmed

ExportDone(c) == c \in DOMAIN exportCalls /\ CallTabs(c) = ExpectedTabs(c)

ExportSafe(c) ==
  /\ IsPrefix(CallTabs(c), ExpectedTabs(c))
  /\ ~ExportProceeds(c) => CallTabs(c) = <<>>
  /\ (\E d \in DOMAIN exportCalls[c].dialogs : exportCalls[c].dialogs[d] = "confirm")
       <=> Len(exportCalls[c].tasks) > ConfirmThreshold

\* C22: a call of exportMultipleTasksToGoogleCalendar with no task opens no
\* tab; with more than 10 tasks it asks for confirmation and opens no tab if
\* the user declines; with 10 tasks or fewer it never asks; and a call that
\* goes ahead opens only its tasks' URLs, in list order, one per task, and
\* eventually all of them.
C22_OneTabPerTask ==
  /\ [](\A c \in DOMAIN exportCalls : ExportSafe(c))
  /\ \A c \in 1..MaxExports : (ExportProceeds(c) ~> ExportDone(c))

\* C22 witness: a confirmed export of more than 10 tasks has opened all its
\* tabs, after an export of no task that opened none.
C22_Witness ==
  /\ Len(exportCalls) = 2
  /\ exportCalls[1].tasks = <<>> /\ exportCalls[1].dialogs = <<"alert_no_tasks">>
  /\ Len(exportCalls[2].tasks) > ConfirmThreshold
  /\ exportCalls[2].confirmed
  /\ timers = <<>>
  /\ CallTabs(2) = ExpectedTabs(2)
  /\ Len(openedTabs) = Len(exportCalls[2].tasks)

\* ================================================ updateTasksViaAi: fences
\* A text is the sequence of its characters; the word "yaml" and the text
\* "<script" are one element each.
IsSpace(c) == c \in {" ", "\n"}

RECURSIVE TrimStart(_)
TrimStart(text) ==
  IF text # <<>> /\ IsSpace(Head(text)) THEN TrimStart(Tail(text)) ELSE text

RECURSIVE TrimEnd(_)
TrimEnd(text) ==
  IF text # <<>> /\ IsSpace(text[Len(text)])
  THEN TrimEnd(SubSeq(text, 1, Len(text) - 1)) ELSE text

\* String.prototype.trim
TrimText(text) == TrimEnd(TrimStart(text))

\* A backtick is written "tick".
Backticks == <<"tick", "tick", "tick">>
StartsWithBackticks(text) == Len(text) >= 3 /\ SubSeq(text, 1, 3) = Backticks
EndsWithBackticks(text) == Len(text) >= 3 /\ SubSeq(text, Len(text) - 2, Len(text)) = Backticks

\* String.prototype.substring(a, b): the arguments are clamped to the text
\* and swapped if a > b.
Substring(text, a, b) ==
  LET lo == IF a < b THEN a ELSE b
      hi == IF a < b THEN b ELSE a
      from == IF lo < 0 THEN 0 ELSE IF lo > Len(text) THEN Len(text) ELSE lo
      to   == IF hi < 0 THEN 0 ELSE IF hi > Len(text) THEN Len(text) ELSE hi
  IN  SubSeq(text, from + 1, to)

\* fenceRegex /^'''(?:yaml)?\s*\n?(.*?)\n?\s*'''$/s (' for a backtick) matches a text that opens
\* and closes with three backticks that do not overlap.
FenceMatches(text) ==
  Len(text) >= 6 /\ StartsWithBackticks(text) /\ EndsWithBackticks(text)

\* match[1]: what lies between the fences, without the label "yaml" (taken
\* greedily), the white space after it (\s*\n?, greedy) and the white space
\* before the closing fence (the group is lazy, \n?\s* takes the rest).
FenceGroup(text) ==
  LET inner == SubSeq(text, 4, Len(text) - 3)
      afterLabel == IF inner # <<>> /\ Head(inner) = "yaml" THEN Tail(inner) ELSE inner
  IN  TrimEnd(TrimStart(afterLabel))

\* validateRequest({ yaml }): none of the malicious patterns occurs.
validateRequest(text) == \A i \in DOMAIN text : text[i] # "<script"

Resolved(text) == [error |-> "", yaml |-> text]
Rejected(message) == [error |-> message, yaml |-> <<>>]

\* updateTasksViaAi from the service's answer on: what the promise settles to.
updateTasksViaAiResult(responseText) ==
  LET trimmed == TrimText(responseText)
      newYaml ==
        IF FenceMatches(trimmed) /\ FenceGroup(trimmed) # <<>>
        THEN TrimText(FenceGroup(trimmed))
        ELSE IF StartsWithBackticks(trimmed) /\ EndsWithBackticks(trimmed)
        THEN TrimText(Substring(trimmed, 3, Len(trimmed) - 3))
        ELSE trimmed
  IN  IF trimmed = <<>> THEN Rejected("AI update failed: Empty response from AI service.")
      ELSE IF ~validateRequest(newYaml)
      THEN Rejected("AI update failed: Invalid response from AI service.")
      ELSE Resolved(newYaml)

\* The forms the service may give one YAML body in.
FenceForms == {"bare", "yaml_fence", "plain_fence"}

Fenced(form, body) ==
  CASE form = "yaml_fence"  -> Backticks \o <<"yaml", "\n">> \o body \o <<"\n">> \o Backticks
    [] form = "plain_fence" -> Backticks \o <<"\n">> \o body \o <<"\n">> \o Backticks
    [] OTHER                -> body

\* generateContent resolves with the body in the given form; the call's
\* result is recorded.
generateContentResolves(form) ==
  /\ \A k \in DOMAIN fenceResults : fenceResults[k].form # form
  /\ fenceResults' = Append(fenceResults,
       [form |-> form, result |-> updateTasksViaAiResult(Fenced(form, responseBody))])
  /\ UNCHANGED responseBody
  /\ UNCHANGED <<envVars, calendarVars, panelVars, aiVars, currentView, appVars, formVars,
                 listVars, ganttVars>>
  /\ Hist("generate_content", NoTask, TRUE)
  /\ Counted

\* Characters of a body and the longest body.
BodyChars == {"-", " ", "\n", "yaml", "tick", "<script"}
MaxBodyLen == 2

RECURSIVE TextsUpTo(_)
TextsUpTo(n) ==
  IF n = 0 THEN {<<>>}
  ELSE TextsUpTo(n - 1) \cup
       {Append(t, c) : t \in {u \in TextsUpTo(n - 1) : Len(u) = n - 1}, c \in BodyChars}

InitFence ==
  /\ InitApp({NoStored}, {9})
  /\ InitCalendarIdle
  /\ InitPanelIdle
  /\ responseBody \in TextsUpTo(MaxBodyLen)
  /\ fenceResults = <<>>

NextFence == \E form \in FenceForms : generateContentResolves(form)

SpecFence == InitFence /\ [][NextFence]_vars

\* C23: updateTasksViaAi settles to the same result whether the service gives
\* the YAML body bare, in a fence labelled yaml or in a plain fence.
C23_FenceEquivalence ==
  \A j, k \in DOMAIN fenceResults : fenceResults[j].result = fenceResults[k].result

\* C24: within one single-task drag, after every pointer-move the dragged
\* task's dates are the dates captured at pointer-down shifted by the
\* round(deltaPixels / unitWidth) units of the pointer's current position,
\* whatever the path; at a delta of 0 units they are the captured dates again.
C24_DatesFollowPointer ==
  [][\A pos \in MovePositions :
       (/\ originalTaskData # NoData
        /\ Len(originalMultiTaskData) = 0
        /\ draggingTask \in TaskIds(tasks)
        /\ handleMouseMove(pos[1], pos[2])) =>
         LET deltaUnits == MathRound(pos[1] - dragStartX, unitWidth)
         IN  /\ FindTask(tasks', draggingTask).startDate
                  = ShiftedDate(originalTaskData.startDate, deltaUnits, timeUnit, tz)
             /\ FindTask(tasks', draggingTask).endDate
                  = ShiftedDate(originalTaskData.endDate, deltaUnits, timeUnit, tz)]_vars

\* C25: a pointer-up clears the transient drag state whether or not the
\* threshold was passed or a date changed: no drag target, no captured dates
\* of a single or a multi drag, hasDragged false and no tooltip.  From then
\* on, until the next pointer-down on a bar, no pointer-move is handled and
\* no step changes a task.
C25_PointerUpClearsDrag ==
  [][/\ lastOp'.op = "mouse_up" =>
          /\ draggingTask' = NoTask
          /\ originalTaskData' = NoData
          /\ originalMultiTaskData' = <<>>
          /\ hasDragged' = FALSE
          /\ dragTooltip' = NoTooltip
     /\ draggingTask = NoTask =>
          /\ tasks' = tasks
          /\ lastOp'.op # "mouse_move"
          /\ \A pos \in MovePositions : ~handleMouseMove(pos[1], pos[2])]_vars

\* C25 witness: in multi-select mode with a selection, the pointer was
\* released on a bar without having passed the threshold.
C25_Witness ==
  /\ lastOp.op = "mouse_up" /\ ~lastOp.ok
  /\ ~prevDrag.dragged
  /\ isMultiSelectMode /\ Len(selectedTaskIds) > 0
  /\ draggingTask = NoTask /\ originalTaskData = NoData /\ originalMultiTaskData = <<>>
  /\ ~dragTooltip.shown

\* C26: a bulk status change to status s with a non-empty selection gives
\* status s to exactly the selected tasks, leaves their other fields and the
\* unselected tasks as they were, keeps the order, empties the selection and
\* leaves selection mode; with an empty selection no bulk status change runs.
C26_BulkStatusFrame ==
  [][/\ lastOp'.op = "bulk_status" =>
          /\ Len(selectedTasks) > 0
          /\ Len(tasks') = Len(tasks)
          /\ \A i \in DOMAIN tasks :
               /\ tasks'[i].status = IF tasks[i].id \in Range(selectedTasks)
                                     THEN lastOp'.id ELSE tasks[i].status
               /\ [tasks'[i] EXCEPT !.status = tasks[i].status] = tasks[i]
          /\ selectedTasks' = <<>>
          /\ ~isSelectionMode'
     /\ Len(selectedTasks) = 0 =>
          /\ \A st \in TaskStatus : ~handleBulkStatusChange(st)
          /\ lastOp'.op # "bulk_status"]_vars

\* C26 witness: a bulk change to Completed has run on a selection that left
\* out a task, which kept another status.
C26_Witness ==
  /\ lastOp = Op("bulk_status", COMPLETED, TRUE)
  /\ \E i, j \in DOMAIN tasks : tasks[i].status = COMPLETED /\ tasks[j].status # COMPLETED
  /\ selectedTasks = <<>> /\ ~isSelectionMode

\* ============================================================ bar duration
\* Math.ceil(a / b) for b > 0.
MathCeil(a, b) == -((-a) \div b)

\* getTaskDurationInUnits(startDate, endDate) of the chart.
getTaskDurationInUnits(startDate, endDate, unit, z) ==
  LET start == SetHoursZero(startDate, z)
      end   == SetHoursZero(endDate, z)
      endOfWeekForStart == SetDate(start, GetDate(start, z) + (6 - GetDay(start, z)), z)
      duration ==
        CASE unit = "day"  -> MathCeil(end - start, 24) + 1
          [] unit = "week" -> MathCeil(end - start, 24 * 7)
          [] OTHER         -> (GetFullYear(end, z) - GetFullYear(start, z)) * 12
                                + (GetMonth(end, z) - GetMonth(start, z)) + 1
  IN  IF unit = "week" /\ end <= endOfWeekForStart THEN 1
      ELSE IF duration < 1 THEN 1 ELSE duration

\* C27: for a task with startDate <= endDate, the bar's duration in units is
\* the number of axis columns from the column that contains startDate
\* through the column that contains endDate.
C27_DurationCountsColumns ==
  LET dateUnits == getDateUnits(tasks, timeUnit, tz, now)
  IN  \A i \in DOMAIN tasks : \A j, k \in DOMAIN dateUnits :
        (/\ GanttMounted
         /\ DayNumber(tasks[i].startDate) <= DayNumber(tasks[i].endDate)
         /\ InColumn(ParseDate(tasks[i].startDate), dateUnits, j, timeUnit, tz)
         /\ InColumn(ParseDate(tasks[i].endDate), dateUnits, k, timeUnit, tz)) =>
          getTaskDurationInUnits(ParseDate(tasks[i].startDate), ParseDate(tasks[i].endDate),
                                 timeUnit, tz) = k - j + 1

\* C28: whenever the chart's multi-select mode is off, its set of selected
\* task ids is empty, so a drag that starts in normal mode prepares a
\* single-task drag (no multi-task originals are saved).
C28_NormalModeHasNoSelection ==
  /\ ~isMultiSelectMode => selectedTaskIds = <<>>
  /\ (~isMultiSelectMode /\ draggingTask # NoTask) => originalMultiTaskData = <<>>

\* C29: in every reachable state the YAML string held by the application
\* loads and parses to exactly the current in-memory task collection.
C29_YamlStringParsesToTasks ==
  /\ ~LoadThrows(yamlString)
  /\ parseTasksFromYaml(yamlString) = tasks

\* ========================================================= ResizablePanel
\* Default props of ResizablePanel: minSize in pixels, maxSize in percent.
minSize == 300
maxSize == 80

\* The split views mount one ResizablePanel around the left pane; switching
\* between split views keeps the mounted panel.
SplitViews == {"split-list-gantt", "split-list-ai", "split-gantt-ai"}
PanelMounted == currentView \in SplitViews

\* What the handlers created by one render close over: the isDragging state
\* of that render.  startPos and startSize are refs, read when a handler runs.
Closure(dragging) == [isDragging |-> dragging]

\* Widths the browser reports for the panel's bounding rectangle, and pointer
\* x positions; every delta is a whole percentage of every width.
ContainerSizes == {500, 1000}
PanelPositions == {0, 50, 100, 200}

\* The size handleMouseMove computes once it is past its first line.
PanelNewSize(from, delta, containerSize) ==
  LET deltaPercentage   == (delta * 100) \div containerSize
      newSize           == from + deltaPercentage
      minSizePercentage == (minSize * 100) \div containerSize
      maxSizePercentage == maxSize
      capped            == IF newSize < maxSizePercentage THEN newSize ELSE maxSizePercentage
  IN  IF capped > minSizePercentage THEN capped ELSE minSizePercentage

\* handleMouseMove of the render that created closure c: TRUE when it passes
\* "if (!isDragging || !containerRef.current) return" and resizes.
PanelMoveResizes(c) == c.isDragging

\* handleMouseDown of the current render, for any mouse button: the listeners
\* added to the document are the handlers of this render.
ResizablePanel_handleMouseDown(clientX) ==
  /\ PanelMounted /\ ~isModalOpen /\ ~LoadingOverlay
  /\ isDragging' = TRUE
  /\ startPos' = clientX
  /\ startSize' = size
  /\ listeners' = listeners \cup {Closure(isDragging)}
  /\ UNCHANGED <<size, splitViewConfig>>
  /\ Hist("panel_down", NoTask, TRUE)
  /\ UNCHANGED <<envVars, calendarVars, geminiVars, aiVars, currentView, appVars, formVars,
                 listVars, ganttVars>>
  /\ Counted

\* A mousemove event on the document: every registered handleMouseMove runs;
\* the ones that resize call setSize and onResize, which rewrites
\* splitViewConfig.
ResizablePanel_handleMouseMove(clientX, containerSize) ==
  /\ PanelMounted
  /\ IF \E c \in listeners : PanelMoveResizes(c)
     THEN LET newSize == PanelNewSize(startSize, clientX - startPos, containerSize)
          IN  /\ size' = newSize
              /\ splitViewConfig' = [leftSize |-> newSize, rightSize |-> 100 - newSize]
     ELSE UNCHANGED <<size, splitViewConfig>>
  /\ UNCHANGED <<isDragging, startPos, startSize, listeners>>
  /\ Hist("panel_move", NoTask, \E c \in listeners : PanelMoveResizes(c))
  /\ UNCHANGED <<envVars, calendarVars, geminiVars, aiVars, currentView, appVars, formVars,
                 listVars, ganttVars>>
  /\ Counted

\* A mouseup event on the document: every registered handleMouseUp runs,
\* setIsDragging(false), and removes the two listeners of its render.
ResizablePanel_handleMouseUp ==
  /\ PanelMounted
  /\ listeners # {}
  /\ isDragging' = FALSE
  /\ listeners' = {}
  /\ UNCHANGED <<size, startPos, startSize, splitViewConfig>>
  /\ Hist("panel_up", NoTask, TRUE)
  /\ UNCHANGED <<envVars, calendarVars, geminiVars, aiVars, currentView, appVars, formVars,
                 listVars, ganttVars>>
  /\ Counted

\* --------------------------------------------------- specification: panel
\* A split view with its resize handle: presses (of any button, also while
\* another button is held), pointer moves and releases.
InitPanel == InitWith({ListDoc(<<MapEntry(TaskA)>>)}, {9})

NextPanel ==
  \/ \E view \in SplitViews : setCurrentView(view)
  \/ \E clientX \in PanelPositions : ResizablePanel_handleMouseDown(clientX)
  \/ \E clientX \in PanelPositions, containerSize \in ContainerSizes :
       ResizablePanel_handleMouseMove(clientX, containerSize)
  \/ ResizablePanel_handleMouseUp

SpecPanel == InitPanel /\ [][NextPanel]_vars

\* C30: while the resize handle is held down, a pointer move sets the panel
\* size to startSize + (pointer delta / container size) * 100, clamped
\* between minSize pixels as a percentage and maxSize percent, and reports it
\* through onResize; after the release a pointer move leaves the size alone.
C30_MoveResizesWhileHeld ==
  [][\A clientX \in PanelPositions, containerSize \in ContainerSizes :
       ResizablePanel_handleMouseMove(clientX, containerSize) =>
         IF isDragging
         THEN /\ size' = PanelNewSize(startSize, clientX - startPos, containerSize)
              /\ splitViewConfig'.leftSize = size'
         ELSE size' = size]_vars

====
